---- MODULE Spec2Model ----
(***************************************************************************)
(* A model of the rustik editor engine (src/src/editor.rs) and its line    *)
(* store (src/src/buffer.rs).                                              *)
(*                                                                         *)
(* Text is a sequence of one-character strings; a buffer is a sequence of  *)
(* lines.  The editor is a state record `s` that the operators below       *)
(* transform the way Editor::execute and Editor::check_bounds do.          *)
(*                                                                         *)
(* usize values.  Every usize of the program stays within a small distance *)
(* of 0 modulo 2^64, so a usize is modelled by an integer v: v >= 0 is the *)
(* value v, and v < 0 is the wrapped value 2^64 + v (-1 is usize::MAX).    *)
(* Addition and subtraction of such values are the integer ones, the       *)
(* unsigned order is ULt, and `as isize` is the identity.  A subtraction   *)
(* that underflows panics when the build has overflow checks (debug) and   *)
(* wraps when it has none (release).  Both builds behave alike until the   *)
(* first underflow: `build` is "any" until then, and "release" once an     *)
(* underflow has wrapped.                                                  *)
(***************************************************************************)
EXTENDS Integers, Sequences, FiniteSets, TLC

VARIABLES
    buffer,                 \* Buffer::lines
    vtop, cx, cy,           \* Editor::vtop, cx, cy
    mode,                   \* Editor::mode
    waiting_key_action,     \* Editor::waiting_key_action
    undo_actions,           \* Editor::undo_actions
    insert_undo_actions,    \* Editor::insert_undo_actions
    vx,                     \* Editor::vx
    size,                   \* Editor::size, <<width, height>>
    build,                  \* "any", or "release" once an underflow wrapped
    status,                 \* "ok", or how run() ended: "quit", "error" (of
                            \* highlight), "io_error" (of the terminal), "panic"
    term,                   \* the terminal: raw mode, alternate screen, cursor
    pc,                     \* position in the loop of Editor::run
    last,                   \* history: the last event, the pending prefix it
                            \* found and the KeyAction it resolved to
    scn,                    \* history: the edit scenario in progress and the
                            \* buffer and undo log it started from
    call,                   \* history: the last call of a Buffer method
    render_buffer,          \* run(): `buffer`, the RenderBuffer being drawn
    current_buffer,         \* run(): `current_buffer`, its clone
    changes,                \* run(): buffer.diff(&current_buffer)
    screen,                 \* the terminal: the cell last printed at each
                            \* position of the screen
    grid_op,                \* history: the last RenderBuffer call
    grid_status             \* "ok", or "panic" once a RenderBuffer call panicked

edVars == <<buffer, vtop, cx, cy, mode, waiting_key_action, undo_actions,
            insert_undo_actions, vx, size, build, status, term, pc>>

histVars == <<last, scn, call>>

gridVars == <<render_buffer, current_buffer, changes, screen, grid_op,
             grid_status>>

vars == <<edVars, histVars, gridVars>>

----------------------------------------------------------------------------
(* Bounds of the model *)

MoveMaxLines == 4
MoveMaxLineLen == 2
MaxVtop == 6
MaxLines == 2
MaxLineLen == 2
MaxUndo == 2
MaxInsertUndo == 2

(* Program constants *)

vleft == 0

----------------------------------------------------------------------------
(* usize arithmetic *)

ULt(a, b) == IF (a >= 0) = (b >= 0) THEN a < b ELSE a >= 0
UGt(a, b) == ULt(b, a)
UGe(a, b) == ~ULt(a, b)
ULe(a, b) == ~ULt(b, a)
SaturatingSub(a, b) == IF ULt(a, b) THEN 0 ELSE a - b
UMin(a, b) == IF ULt(a, b) THEN a ELSE b
Abs(i) == IF i < 0 THEN -i ELSE i

----------------------------------------------------------------------------
(* Option *)

None == [some |-> FALSE]
Some(v) == [some |-> TRUE, v |-> v]

----------------------------------------------------------------------------
(* Buffer (src/src/buffer.rs) *)

BufferLen(lines) == Len(lines)

BufferGet(lines, line) ==
    IF UGt(Len(lines), line) THEN Some(lines[line + 1]) ELSE None

\* String::insert(idx, c) and Vec::insert(idx, e), idx <= len
InsertAt(seq, idx, e) ==
    SubSeq(seq, 1, idx) \o <<e>> \o SubSeq(seq, idx + 1, Len(seq))

\* String::remove(idx) and Vec::remove(idx), idx < len
RemoveAt(seq, idx) == SubSeq(seq, 1, idx) \o SubSeq(seq, idx + 2, Len(seq))

RECURSIVE JoinLines(_)
\* [String]::join("\n"): the lines with one "\n" between two of them
JoinLines(lines) ==
    IF lines = <<>> THEN <<>>
    ELSE IF Len(lines) = 1 THEN lines[1]
    ELSE lines[1] \o <<"\n">> \o JoinLines(Tail(lines))

\* Buffer::viewport: self.lines[vtop..height] panics when vtop > height
BufferViewport(lines, vtop_, vheight_) ==
    LET height == UMin(vtop_ + vheight_, Len(lines))
    IN IF UGt(vtop_, height) THEN [ret |-> <<>>, panic |-> TRUE]
       ELSE [ret |-> JoinLines(SubSeq(lines, vtop_ + 1, height)),
             panic |-> FALSE]

----------------------------------------------------------------------------
(* RenderBuffer: a grid of cells, row-major, position y * width + x *)

Cell(c, style) == [c |-> c, style |-> style]

\* RenderBuffer::new
RenderBufferNew(width, height, default_style) ==
    [cells |-> [pos \in 1..(width * height) |-> Cell(" ", default_style)],
     width |-> width, height |-> height]

\* set_char refusing a column or a row that is not of the grid
set_char_Checked(rb, x, y, c, style) ==
    IF x >= rb.width \/ y >= rb.height THEN [rb |-> rb, panic |-> TRUE]
    ELSE [rb |-> [rb EXCEPT !.cells[(y * rb.width) + x + 1] = Cell(c, style)],
          panic |-> FALSE]

\* self.cells[pos] = cell panics when pos is not an index of cells
set_char(rb, x, y, c, style) ==
    LET pos == (y * rb.width) + x
    IN IF pos >= Len(rb.cells) THEN [rb |-> rb, panic |-> TRUE]
       ELSE [rb |-> [rb EXCEPT !.cells[pos + 1] = Cell(c, style)],
             panic |-> FALSE]

RECURSIVE SetTextFrom(_, _, _, _, _)
\* the loop of set_text, from the character number i of s (0-based)
SetTextFrom(rb, pos, s, style, i) ==
    IF i >= Len(s) THEN [rb |-> rb, panic |-> FALSE]
    ELSE IF pos + i >= Len(rb.cells) THEN [rb |-> rb, panic |-> TRUE]
    ELSE SetTextFrom([rb EXCEPT !.cells[pos + i + 1] = Cell(s[i + 1], style)],
                     pos, s, style, i + 1)

\* set_text writing each character with the style its cell had
set_text_KeepsStyle(rb, x, y, s, style) ==
    LET pos == (y * rb.width) + x
        n == Len(rb.cells)
    IN [rb |-> [rb EXCEPT !.cells =
                    [p \in 1..n |->
                        IF p - 1 >= pos /\ p - 1 < pos + Len(s)
                        THEN Cell(s[p - pos], rb.cells[p].style)
                        ELSE rb.cells[p]]],
        panic |-> pos + Len(s) > n /\ s # <<>>]

set_text(rb, x, y, s, style) ==
    SetTextFrom(rb, (y * rb.width) + x, s, style, 0)

RECURSIVE DiffFrom(_, _, _)
\* the loop of diff, from position pos, as far as other has cells
DiffFrom(self, other, pos) ==
    IF pos >= Len(self.cells) \/ pos >= Len(other.cells) THEN <<>>
    ELSE (IF self.cells[pos + 1] # other.cells[pos + 1]
          THEN <<[x |-> pos % self.width, y |-> pos \div self.width,
                  cell |-> self.cells[pos + 1]]>>
          ELSE <<>>) \o DiffFrom(self, other, pos + 1)

\* diff comparing the characters of the cells only
diff_CharsOnly(self, other) ==
    LET differ == {pos \in 0..(Len(self.cells) - 1) :
                      self.cells[pos + 1].c # other.cells[pos + 1].c}
        RECURSIVE List(_)
        List(pos) ==
            IF pos >= Len(self.cells) THEN <<>>
            ELSE (IF pos \in differ
                  THEN <<[x |-> pos % self.width, y |-> pos \div self.width,
                          cell |-> self.cells[pos + 1]]>>
                  ELSE <<>>) \o List(pos + 1)
    IN [changes |-> List(0), panic |-> FALSE]

\* other.cells[pos] panics when pos is not an index of other.cells
diff(self, other) ==
    [changes |-> DiffFrom(self, other, 0),
     panic |-> Len(self.cells) > Len(other.cells)]

----------------------------------------------------------------------------
(* Editor helpers *)

Panic(s) == [s EXCEPT !.status = "panic"]
Error(s) == [s EXCEPT !.status = "error"]
IoError(s) == [s EXCEPT !.status = "io_error"]

\* a - b underflows and the build checks it
SubPanics(s, a, b) == s.overflow_checks /\ ULt(a, b)

\* a - b in a build that does not check it: s, with the wrap recorded
Sub(s, a, b) == IF ULt(a, b) THEN [s EXCEPT !.wrapped = TRUE] ELSE s

vheight(s) == s.size[2] - 2
vwidth(s) == s.size[1]

is_insert(s) == s.mode = "Insert"

buffer_line(s) == s.vtop + s.cy

viewport_line(s, n) == BufferGet(s.buffer, s.vtop + n)

line_length(s) ==
    LET line == viewport_line(s, s.cy)
    IN IF line.some THEN Len(line.v) ELSE 0

\* self.highlight(..)?: the call number s.hl of the event fails (-1: none)
Highlight(s) ==
    IF s.hl = s.hl_calls THEN Error(s)
    ELSE [s EXCEPT !.hl_calls = s.hl_calls + 1]

\* Whether the cells of the RenderBuffer of run() are followed: a
\* specification that leaves them out keeps a RenderBuffer of no cell, and
\* the drawing functions then do what they do to the editor only
Followed(s) == s.grid.cells # <<>>

\* w is what set_char or set_text returned for the RenderBuffer of run()
GridWrite(s, w) == IF w.panic THEN Panic(s) ELSE [s EXCEPT !.grid = w.rb]

\* buffer.set_char(x, y, c, style) and buffer.set_text(x, y, text, style)
BufferSetChar(s, x, y, c, style) ==
    IF s.status # "ok" THEN s
    ELSE GridWrite(s, set_char(s.grid, x, y, c, style))

BufferSetText(s, x, y, text, style) ==
    IF s.status # "ok" THEN s
    ELSE GridWrite(s, set_text(s.grid, x, y, text, style))

\* " ".repeat(n)
Spaces(n) == [i \in 1..n |-> " "]

\* format!("{text:>width$}") and format!("{text:<width$}"): width is a
\* minimum, a longer text is not cut
PadLeft(text, width) ==
    IF Len(text) >= width THEN text ELSE Spaces(width - Len(text)) \o text
PadRight(text, width) ==
    IF Len(text) >= width THEN text ELSE text \o Spaces(width - Len(text))

RECURSIVE Digits(_)
\* n.to_string().len(); a wrapped value (2^64 + n, n < 0 small) has 20 digits
Digits(n) == IF n < 0 THEN 20 ELSE IF n < 10 THEN 1 ELSE 1 + Digits(n \div 10)

DigitChars == <<"0", "1", "2", "3", "4", "5", "6", "7", "8", "9">>

RECURSIVE Decimal(_)
\* n.to_string(); a wrapped value 2^64 + n, -616 <= n < 0, is
\* 18446744073709551 followed by the three digits of 616 + n
Decimal(n) ==
    IF n < 0
    THEN <<"1", "8", "4", "4", "6", "7", "4", "4", "0", "7", "3", "7", "0",
           "9", "5", "5", "1">>
         \o <<DigitChars[((616 + n) \div 100) + 1],
              DigitChars[(((616 + n) \div 10) % 10) + 1],
              DigitChars[((616 + n) % 10) + 1]>>
    ELSE IF n < 10 THEN <<DigitChars[n + 1]>>
    ELSE Decimal(n \div 10) \o <<DigitChars[(n % 10) + 1]>>

\* The style highlight() gives the character at a position of a text, as
\* determine_style_for_position finds it: the highlighter makes every "b"
\* a token and styles nothing else
determine_style_for_position(text, pos) ==
    IF text[pos + 1] = "b" THEN Some("token") ELSE None

StyleAt(text, pos) ==
    LET style == determine_style_for_position(text, pos)
    IN IF style.some THEN style.v ELSE "default"

\* fill_line: blanks from column x to the width of the viewport
fill_line(s, x, y, style) ==
    BufferSetText(s, x, y, Spaces(SaturatingSub(vwidth(s), x)), style)

gutter_width(s) == Digits(BufferLen(s.buffer)) + 1

RECURSIVE DrawGutterFrom(_, _)
\* the loop of draw_gutter, from row n
DrawGutterFrom(s, n) ==
    IF n >= vheight(s) \/ s.status # "ok" THEN s
    ELSE LET width == gutter_width(s)
             line_number == n + 1 + s.vtop
             text == IF ULe(line_number, BufferLen(s.buffer))
                     THEN Decimal(line_number)
                     ELSE Spaces(width)
         IN DrawGutterFrom(
                BufferSetText(s, 0, n, PadLeft(text, width) \o <<" ">>,
                              "gutter"),
                n + 1)

draw_gutter(s) == IF Followed(s) THEN DrawGutterFrom(s, 0) ELSE s

RECURSIVE DrawViewportFrom(_, _, _, _, _)
\* the loop of draw_viewport over the characters of vbuffer, from the
\* character number pos with the pen at (x, y); y is the row it ends on
DrawViewportFrom(s, vbuffer, pos, x, y) ==
    IF pos >= Len(vbuffer) \/ s.status # "ok" THEN [s |-> s, y |-> y]
    ELSE LET c == vbuffer[pos + 1]
         IN IF c = "\n" \/ pos = Len(vbuffer) - 1
            THEN LET s1 == IF c # "\n"
                           THEN BufferSetChar(s, x, y, c, "default") ELSE s
                     x1 == IF c # "\n" THEN x + 1 ELSE x
                     s2 == fill_line(s1, x1, y, "default")
                 IN IF y + 1 > vheight(s) THEN [s |-> s2, y |-> y + 1]
                    ELSE DrawViewportFrom(s2, vbuffer, pos + 1, s.vx, y + 1)
            ELSE DrawViewportFrom(
                     IF ULt(x, vwidth(s))
                     THEN BufferSetChar(s, x, y, c, StyleAt(vbuffer, pos))
                     ELSE s,
                     vbuffer, pos + 1, x + 1, y)

RECURSIVE FillRowsFrom(_, _)
\* while y < vheight { fill_line(buffer, 0, y, ..); y += 1 }
FillRowsFrom(s, y) ==
    IF y >= vheight(s) \/ s.status # "ok" THEN s
    ELSE FillRowsFrom(fill_line(s, 0, y, "default"), y + 1)

\* Buffer::viewport slices lines[vtop..min(vtop + vheight, len)], then
\* highlight(..)?, then the rows of the viewport and the gutter
draw_viewport(s) ==
    IF s.status # "ok" THEN s
    ELSE LET vbuffer == BufferViewport(s.buffer, s.vtop, vheight(s))
             s1 == Highlight(s)
         IN IF vbuffer.panic THEN Panic(s)
            ELSE IF s1.status # "ok" \/ ~Followed(s1) THEN s1
            ELSE LET r == DrawViewportFrom(s1, vbuffer.ret, 0, s1.vx, 0)
                 IN draw_gutter(FillRowsFrom(r.s, r.y))

\* draw_statusline computes size.0 - mode.len() - pos.len() - 2 in u16: an
\* underflow panics with overflow checks, and without them yields a file
\* segment of some 65,000 characters, which set_text writes past the grid
draw_statusline(s) ==
    LET mode_len == 8
        pos_len == 3 + Digits(s.cx + 1) + Digits(s.cy + s.vtop + 1)
        mode_text == IF s.mode = "Normal"
                     THEN <<" ", "N", "O", "R", "M", "A", "L", " ">>
                     ELSE <<" ", "I", "N", "S", "E", "R", "T", " ">>
        file == <<" ", "N", "o", " ", "N", "a", "m", "e">>
        pos == <<" ">> \o Decimal(s.cx + 1) \o <<":">>
                   \o Decimal(s.cy + s.vtop + 1) \o <<" ">>
        file_width == s.size[1] - mode_len - pos_len - 2
        y == s.size[2] - 2
        s1 == BufferSetText(s, 0, y, mode_text, "outer")
        s2 == BufferSetText(s1, mode_len, y, <<">">>, "transition")
        s3 == BufferSetText(s2, mode_len + 1, y, PadRight(file, file_width),
                            "inner")
        s4 == BufferSetText(s3, mode_len + 1 + file_width, y, <<"<">>,
                            "transition")
    IN IF s.status # "ok" THEN s
       ELSE IF s.size[1] < mode_len + pos_len + 2 THEN Panic(s)
       ELSE IF ~Followed(s) THEN s
       ELSE BufferSetText(s4, mode_len + 2 + file_width, y, pos, "outer")

RECURSIVE DrawLineFrom(_, _, _, _)
\* the loop of draw_line over the characters of the line, from the
\* character number pos with the pen at column x of row cy: a line of no
\* character is a loop of no iteration
DrawLineFrom(s, line, pos, x) ==
    IF pos >= Len(line) \/ s.status # "ok" THEN s
    ELSE LET c == line[pos + 1]
         IN IF c = "\n" \/ pos = Len(line) - 1
            THEN LET s1 == IF c # "\n"
                           THEN BufferSetChar(s, x, s.cy, c, "default") ELSE s
                     x1 == IF c # "\n" THEN x + 1 ELSE x
                 IN fill_line(s1, x1, s.cy, "default")
            ELSE DrawLineFrom(
                     IF ULt(x, vwidth(s))
                     THEN BufferSetChar(s, x, s.cy, c, StyleAt(line, pos))
                     ELSE s,
                     line, pos + 1, x + 1)

\* draw_line writes the cursor row of the grid: set_char(x, cy, ..) indexes
\* cells[cy * width + x] and panics past the width * height cells.  Only the
\* last character of the line is written without the x < vwidth guard.
draw_line(s) ==
    LET line == viewport_line(s, s.cy)
        text == IF line.some THEN line.v ELSE <<>>
        n == Len(text)
        w == vwidth(s)
        written == {i \in 0..(n - 1) : i = n - 1 \/ ULt(s.vx + i, w)}
    IN IF s.status # "ok" THEN s
       ELSE IF \E i \in written : UGe(s.cy * w + s.vx + i, w * s.size[2])
       THEN Panic(s)
       ELSE IF ~Followed(s) THEN s
       ELSE DrawLineFrom(s, text, 0, s.vx)

\* check_bounds clamping cx to the line length, not to the last character
check_bounds_ClampToLength(s) ==
    LET ll == line_length(s)
        s1 == IF UGt(s.cx, ll) /\ ~is_insert(s) THEN [s EXCEPT !.cx = ll] ELSE s
        len == BufferLen(s1.buffer)
    IN IF UGt(s1.cy + s1.vtop, SaturatingSub(len, 1))
       THEN [s1 EXCEPT !.cy = SaturatingSub(SaturatingSub(len, s1.vtop), 1)]
       ELSE s1

check_bounds(s) ==
    LET ll == line_length(s)
        s1 == IF UGe(s.cx, ll) /\ ~is_insert(s)
              THEN IF ll > 0 THEN [s EXCEPT !.cx = ll - 1]
                   ELSE [s EXCEPT !.cx = 0]
              ELSE s
        s2 == IF UGe(s1.cx, vwidth(s1))
              THEN IF SubPanics(s1, vwidth(s1), 1) THEN Panic(s1)
                   ELSE [Sub(s1, vwidth(s1), 1) EXCEPT !.cx = vwidth(s1) - 1]
              ELSE s1
        len == BufferLen(s2.buffer)
        line_on_buffer == s2.cy + s2.vtop
    IN IF s2.status # "ok" THEN s2
       ELSE IF UGt(line_on_buffer, SaturatingSub(len, 1))
       THEN IF SubPanics(s2, len, s2.vtop) \/ SubPanics(s2, len - s2.vtop, 1)
            THEN Panic(s2)
            ELSE [Sub(Sub(s2, len, s2.vtop), len - s2.vtop, 1)
                     EXCEPT !.cy = len - s2.vtop - 1]
       ELSE s2

----------------------------------------------------------------------------
(* Editor::execute, one operator per arm *)

ExecMoveUp(s) ==
    IF s.cy = 0
    THEN IF UGt(s.vtop, 0)
         THEN draw_viewport([s EXCEPT !.vtop = s.vtop - 1])
         ELSE s
    ELSE [s EXCEPT !.cy = SaturatingSub(s.cy, 1)]

ExecMoveDown(s) ==
    LET cy1 == s.cy + 1
    IN IF UGe(cy1, vheight(s))
       THEN IF SubPanics(s, cy1, 1) THEN Panic(s)
            ELSE draw_viewport([Sub(s, cy1, 1) EXCEPT !.vtop = s.vtop + 1,
                                                      !.cy = cy1 - 1])
       ELSE [s EXCEPT !.cy = cy1]

ExecMoveLeft(s) ==
    LET x == SaturatingSub(s.cx, 1)
    IN [s EXCEPT !.cx = IF ULt(x, vleft) THEN vleft ELSE x]

ExecMoveRight(s) == [s EXCEPT !.cx = s.cx + 1]

ExecMoveToLineStart(s) == [s EXCEPT !.cx = 0]

ExecMoveToLineEnd(s) == [s EXCEPT !.cx = SaturatingSub(line_length(s), 1)]

ExecPageUp(s) ==
    IF UGt(s.vtop, 0)
    THEN draw_viewport([s EXCEPT !.vtop = SaturatingSub(s.vtop, vheight(s))])
    ELSE s

ExecPageDown(s) ==
    IF UGt(BufferLen(s.buffer), s.vtop + vheight(s))
    THEN [s EXCEPT !.vtop = s.vtop + vheight(s)]
    ELSE s

ExecMoveToTop(s) == draw_viewport([s EXCEPT !.vtop = 0, !.cy = 0])

ExecMoveToBottom(s) ==
    LET len == BufferLen(s.buffer)
    IN IF UGt(len, vheight(s))
       THEN IF SubPanics(s, vheight(s), 1) THEN Panic(s)
            ELSE draw_viewport([Sub(s, vheight(s), 1)
                                   EXCEPT !.vtop = len - vheight(s),
                                          !.cy = vheight(s) - 1])
       ELSE IF SubPanics(s, len, 1) THEN Panic(s)
            ELSE [Sub(s, len, 1) EXCEPT !.cy = len - 1]

ExecMoveLineToViewportCenter(s) ==
    LET viewport_center == vheight(s) \div 2
        distance_to_center == s.cy - viewport_center
        d == Abs(distance_to_center)
        distance_to_go == s.vtop + d
        new_vtop == SaturatingSub(s.vtop, d)
    IN IF distance_to_center > 0
       THEN IF UGt(s.vtop, d)
            THEN draw_viewport([s EXCEPT !.vtop = s.vtop + d,
                                         !.cy = viewport_center])
            ELSE s
       ELSE IF distance_to_center < 0
       THEN IF UGt(BufferLen(s.buffer), distance_to_go) /\ new_vtop # s.vtop
            THEN draw_viewport([s EXCEPT !.vtop = new_vtop,
                                         !.cy = viewport_center])
            ELSE s
       ELSE s

\* EnterMode leaving the insert session's group in place
ExecEnterMode_KeepsGroup(s, new_mode) ==
    LET s1 == IF is_insert(s) /\ new_mode = "Normal"
                 /\ s.insert_undo_actions # <<>>
              THEN [s EXCEPT
                      !.undo_actions =
                          Append(@, [t |-> "UndoMultiple",
                                     actions |-> s.insert_undo_actions])]
              ELSE s
    IN draw_statusline([s1 EXCEPT !.mode = new_mode])

ExecEnterMode(s, new_mode) ==
    LET s1 == IF ~is_insert(s) /\ new_mode = "Insert"
              THEN [s EXCEPT !.insert_undo_actions = <<>>]
              ELSE s
        s2 == IF is_insert(s1) /\ new_mode = "Normal"
                 /\ s1.insert_undo_actions # <<>>
              THEN [s1 EXCEPT
                      !.undo_actions =
                          Append(@, [t |-> "UndoMultiple",
                                     actions |-> s1.insert_undo_actions]),
                      !.insert_undo_actions = <<>>]
              ELSE s1
    IN draw_statusline([s2 EXCEPT !.mode = new_mode])

\* Buffer::insert: String::insert panics when x is past the end of the line
BufferInsert(s, x, y, c) ==
    IF UGe(y, Len(s.buffer)) THEN s
    ELSE IF UGt(x, Len(s.buffer[y + 1])) THEN Panic(s)
    ELSE [s EXCEPT !.buffer[y + 1] = InsertAt(@, x, c)]

\* Buffer::remove: String::remove panics when x is not the index of a character
BufferRemove(s, x, y) ==
    IF UGe(y, Len(s.buffer)) THEN s
    ELSE IF UGe(x, Len(s.buffer[y + 1])) THEN Panic(s)
    ELSE [s EXCEPT !.buffer[y + 1] = RemoveAt(@, x)]

\* Buffer::insert_line: Vec::insert panics when line is past the end
BufferInsertLine(s, line, content) ==
    IF UGt(line, Len(s.buffer)) THEN Panic(s)
    ELSE [s EXCEPT !.buffer = InsertAt(@, line, content)]

BufferRemoveLine(s, line) ==
    IF UGt(Len(s.buffer), line)
    THEN [s EXCEPT !.buffer = RemoveAt(@, line)]
    ELSE s

\* InsertCharAtCursorPos recording its inverse after it advanced cx
ExecInsertCharAtCursorPos_RecordAfter(s, c) ==
    LET s1 == BufferInsert(s, s.cx, buffer_line(s), c)
        s2 == [s1 EXCEPT !.cx = s1.cx + 1]
    IN IF s1.status # "ok" THEN s1
       ELSE draw_line([s2 EXCEPT !.insert_undo_actions =
                          Append(@, [t |-> "RemoveCharAt", x |-> s2.cx,
                                     y |-> buffer_line(s2)])])

ExecInsertCharAtCursorPos(s, c) ==
    LET s1 == [s EXCEPT !.insert_undo_actions =
                   Append(@, [t |-> "RemoveCharAt", x |-> s.cx,
                              y |-> buffer_line(s)])]
        s2 == BufferInsert(s1, s1.cx, buffer_line(s1), c)
    IN IF s2.status # "ok" THEN s2
       ELSE draw_line([s2 EXCEPT !.cx = s2.cx + 1])

ExecRemoveCharAt(s, x, line) ==
    LET s1 == BufferRemove(s, x, line)
    IN draw_line(s1)

ExecDeleteCharAtCursorPos(s) ==
    LET s1 == BufferRemove(s, s.cx, buffer_line(s))
    IN draw_line(s1)

\* NewLine splitting the line of the cursor at the cursor
ExecNewLine_Splits(s) ==
    LET line == BufferGet(s.buffer, buffer_line(s))
        text == IF line.some THEN line.v ELSE <<>>
        at == IF ULt(s.cx, Len(text)) THEN s.cx ELSE Len(text)
        s1 == IF line.some
              THEN [s EXCEPT !.buffer[buffer_line(s) + 1] = SubSeq(text, 1, at)]
              ELSE s
        s2 == [s1 EXCEPT !.cx = 0, !.cy = s.cy + 1]
        s3 == BufferInsertLine(s2, buffer_line(s2),
                               SubSeq(text, at + 1, Len(text)))
    IN draw_viewport(s3)

ExecNewLine(s) ==
    LET s1 == [s EXCEPT !.cx = 0, !.cy = s.cy + 1]
        s2 == BufferInsertLine(s1, buffer_line(s1), <<>>)
    IN draw_viewport(s2)

ExecSetWaitingKeyAction(s, key_action) ==
    [s EXCEPT !.waiting_key_action = key_action]

\* DeleteCurrentLine recording the line below the one it removed
ExecDeleteCurrentLine_RecordBelow(s) ==
    LET line == buffer_line(s)
        contents == BufferGet(s.buffer, line)
        s1 == BufferRemoveLine(s, line)
    IN draw_viewport([s1 EXCEPT !.undo_actions =
                         Append(@, [t |-> "InsertLineAt",
                                    y |-> IF line < Len(s1.buffer)
                                          THEN line + 1 ELSE line,
                                    contents |-> contents])])

ExecDeleteCurrentLine(s) ==
    LET line == buffer_line(s)
        contents == BufferGet(s.buffer, buffer_line(s))
        s1 == BufferRemoveLine(s, buffer_line(s))
        s2 == [s1 EXCEPT !.undo_actions =
                   Append(@, [t |-> "InsertLineAt", y |-> line,
                              contents |-> contents])]
    IN draw_viewport(s2)

ExecInsertLineAt(s, y, contents) ==
    IF contents.some
    THEN draw_viewport(BufferInsertLine(s, y, contents.v))
    ELSE s

ExecInsertLineAtCursor(s) ==
    LET s1 == [s EXCEPT !.undo_actions =
                   Append(@, [t |-> "DeleteLineAt", y |-> buffer_line(s)])]
        s2 == BufferInsertLine(s1, buffer_line(s1), <<>>)
    IN IF s2.status # "ok" THEN s2
       ELSE draw_viewport([s2 EXCEPT !.cx = 0])

\* InsertLineBelowCursor entering Insert mode, as the key `o` does
ExecInsertLineBelowCursor_EntersInsert(s) ==
    LET s1 == [s EXCEPT !.undo_actions =
                   Append(@, [t |-> "DeleteLineAt", y |-> buffer_line(s) + 1])]
        s2 == BufferInsertLine(s1, buffer_line(s1) + 1, <<>>)
    IN IF s2.status # "ok" THEN s2
       ELSE draw_viewport([s2 EXCEPT !.cy = s2.cy + 1, !.cx = 0,
                                     !.mode = "Insert"])

ExecInsertLineBelowCursor(s) ==
    LET s1 == [s EXCEPT !.undo_actions =
                   Append(@, [t |-> "DeleteLineAt", y |-> buffer_line(s) + 1])]
        s2 == BufferInsertLine(s1, buffer_line(s1) + 1, <<>>)
    IN IF s2.status # "ok" THEN s2
       ELSE draw_viewport([s2 EXCEPT !.cy = s2.cy + 1, !.cx = 0])

ExecDeleteLineAt(s, y) == draw_viewport(BufferRemoveLine(s, y))

ExecDeletePreviousChar(s) ==
    IF UGt(s.cx, 0)
    THEN LET s1 == [s EXCEPT !.cx = s.cx - 1]   \* cx > 0: no underflow
             s2 == BufferRemove(s1, s1.cx, buffer_line(s1))
         IN draw_line(s2)
    ELSE s

RECURSIVE Execute(_, _)
RECURSIVE ExecuteRev(_, _, _)

\* Action::Undo: pop the last entry of undo_actions and execute it
ExecUndo(s) ==
    IF s.undo_actions = <<>> THEN s
    ELSE LET n == Len(s.undo_actions)
         IN Execute([s EXCEPT !.undo_actions = SubSeq(@, 1, n - 1)],
                    s.undo_actions[n])

\* UndoMultiple undoing the last action of the group only
ExecUndoMultiple_LastOnly(s, actions) ==
    IF actions = <<>> THEN s ELSE Execute(s, actions[Len(actions)])

RECURSIVE ExecuteInOrder(_, _, _)

\* UndoMultiple replaying the group first action first
ExecUndoMultiple_InOrder(s, actions) == ExecuteInOrder(s, actions, 1)

\* Action::UndoMultiple: for action in actions.iter().rev() { execute(action)? }
ExecUndoMultiple(s, actions) == ExecuteRev(s, actions, Len(actions))

ExecuteRev(s, actions, i) ==
    IF i = 0 \/ s.status # "ok" THEN s
    ELSE ExecuteRev(Execute(s, actions[i]), actions, i - 1)

ExecuteInOrder(s, actions, i) ==
    IF i > Len(actions) \/ s.status # "ok" THEN s
    ELSE ExecuteInOrder(Execute(s, actions[i]), actions, i + 1)

ExecQuit(s) == [s EXCEPT !.status = "quit"]

Execute(s, action) ==
    IF s.status # "ok" THEN s
    ELSE CASE action.t = "Quit" -> ExecQuit(s)
           [] action.t = "MoveUp" -> ExecMoveUp(s)
           [] action.t = "MoveDown" -> ExecMoveDown(s)
           [] action.t = "MoveLeft" -> ExecMoveLeft(s)
           [] action.t = "MoveRight" -> ExecMoveRight(s)
           [] action.t = "MoveToLineStart" -> ExecMoveToLineStart(s)
           [] action.t = "MoveToLineEnd" -> ExecMoveToLineEnd(s)
           [] action.t = "PageUp" -> ExecPageUp(s)
           [] action.t = "PageDown" -> ExecPageDown(s)
           [] action.t = "EnterMode" -> ExecEnterMode(s, action.mode)
           [] action.t = "InsertCharAtCursorPos" ->
                  ExecInsertCharAtCursorPos(s, action.c)
           [] action.t = "RemoveCharAt" -> ExecRemoveCharAt(s, action.x, action.y)
           [] action.t = "DeleteCharAtCursorPos" -> ExecDeleteCharAtCursorPos(s)
           [] action.t = "NewLine" -> ExecNewLine(s)
           [] action.t = "SetWaitingKeyAction" ->
                  ExecSetWaitingKeyAction(s, action.key_action)
           [] action.t = "DeleteCurrentLine" -> ExecDeleteCurrentLine(s)
           [] action.t = "Undo" -> ExecUndo(s)
           [] action.t = "InsertLineAt" ->
                  ExecInsertLineAt(s, action.y, action.contents)
           [] action.t = "MoveLineToViewportCenter" ->
                  ExecMoveLineToViewportCenter(s)
           [] action.t = "InsertLineAtCursor" -> ExecInsertLineAtCursor(s)
           [] action.t = "InsertLineBelowCursor" -> ExecInsertLineBelowCursor(s)
           [] action.t = "MoveToTop" -> ExecMoveToTop(s)
           [] action.t = "MoveToBottom" -> ExecMoveToBottom(s)
           [] action.t = "UndoMultiple" -> ExecUndoMultiple(s, action.actions)
           [] action.t = "DeleteLineAt" -> ExecDeleteLineAt(s, action.y)
           [] action.t = "DeletePreviousChar" -> ExecDeletePreviousChar(s)

----------------------------------------------------------------------------
(* Actions and key actions (enum Action, config::KeyAction) *)

Act(t) == [t |-> t]
EnterMode(m) == [t |-> "EnterMode", mode |-> m]
InsertCharAtCursorPos(c) == [t |-> "InsertCharAtCursorPos", c |-> c]

NoKeyAction == [k |-> "None"]
Single(action) == [k |-> "Single", action |-> action]
Multiple(actions) == [k |-> "Multiple", actions |-> actions]
Nested(map) == [k |-> "Nested", map |-> map]

\* The key tables of the configuration (config.keys.normal, config.keys.insert)
NormalKeys ==
    [key \in {"h", "j", "k", "l", "0", "$", "G", "g", "z", "d", "x", "u",
              "i", "a", "o", "O", "Ctrl-b", "Ctrl-f", "q"} |->
        CASE key = "h" -> Single(Act("MoveLeft"))
          [] key = "j" -> Single(Act("MoveDown"))
          [] key = "k" -> Single(Act("MoveUp"))
          [] key = "l" -> Single(Act("MoveRight"))
          [] key = "0" -> Single(Act("MoveToLineStart"))
          [] key = "$" -> Single(Act("MoveToLineEnd"))
          [] key = "G" -> Single(Act("MoveToBottom"))
          [] key = "g" -> Nested([k2 \in {"g"} |-> Single(Act("MoveToTop"))])
          [] key = "z" ->
                 Nested([k2 \in {"z"} |-> Single(Act("MoveLineToViewportCenter"))])
          [] key = "d" ->
                 Nested([k2 \in {"d"} |-> Single(Act("DeleteCurrentLine"))])
          [] key = "x" -> Single(Act("DeleteCharAtCursorPos"))
          [] key = "u" -> Single(Act("Undo"))
          [] key = "i" -> Single(EnterMode("Insert"))
          [] key = "a" -> Multiple(<<EnterMode("Insert"), Act("MoveRight")>>)
          [] key = "o" ->
                 Multiple(<<Act("InsertLineBelowCursor"), EnterMode("Insert")>>)
          [] key = "O" ->
                 Multiple(<<Act("InsertLineAtCursor"), EnterMode("Insert")>>)
          [] key = "Ctrl-b" -> Single(Act("PageUp"))
          [] key = "Ctrl-f" -> Single(Act("PageDown"))
          [] key = "q" -> Single(Act("Quit"))]

InsertKeys ==
    [key \in {"Esc", "Backspace", "Enter", "Left", "Right", "Up", "Down"} |->
        CASE key = "Esc" -> Single(EnterMode("Normal"))
          [] key = "Backspace" -> Single(Act("DeletePreviousChar"))
          [] key = "Enter" -> Single(Act("NewLine"))
          [] key = "Left" -> Single(Act("MoveLeft"))
          [] key = "Right" -> Single(Act("MoveRight"))
          [] key = "Up" -> Single(Act("MoveUp"))
          [] key = "Down" -> Single(Act("MoveDown"))]

\* Events: a key event carries its code (the character of a
\* KeyCode::Char(c), or the name of another KeyCode) and its modifiers;
\* any other event is "Other"
CharKeys == {"h", "j", "k", "l", "0", "$", "G", "g", "z", "d", "x", "u",
             "i", "a", "o", "O", "q", "b", "f"}

KeyEvent(code) ==
    [kind |-> "Key", code |-> code, is_char |-> code \in CharKeys,
     modifiers |-> "NONE"]
CtrlKeyEvent(code) ==
    [kind |-> "Key", code |-> code, is_char |-> code \in CharKeys,
     modifiers |-> "CONTROL"]
OtherEvent == [kind |-> "Other"]

----------------------------------------------------------------------------
(* Key routing (Editor::handle_event and the functions it calls) *)

\* the key string event_to_key_action looks up
KeyString(ev) ==
    CASE ev.modifiers = "CONTROL" -> "Ctrl-" \o ev.code
      [] ev.modifiers = "ALT" -> "ALT-" \o ev.code
      [] OTHER -> ev.code

event_to_key_action(mappings, ev) ==
    IF ev.kind = "Key" /\ KeyString(ev) \in DOMAIN mappings
    THEN mappings[KeyString(ev)]
    ELSE NoKeyAction

handle_normal_event(s, ev) ==
    [s |-> s, ka |-> event_to_key_action(NormalKeys, ev)]

handle_insert_event(s, ev) ==
    LET ka == event_to_key_action(InsertKeys, ev)
    IN IF ka # NoKeyAction THEN [s |-> s, ka |-> ka]
       ELSE IF ev.kind = "Key" /\ ev.is_char
       THEN [s |-> s, ka |-> Single(InsertCharAtCursorPos(ev.code))]
       ELSE [s |-> s, ka |-> NoKeyAction]

handle_waiting_command(s, ka, ev) ==
    IF ka.k # "Nested" THEN [s |-> Panic(s), ka |-> NoKeyAction]
    ELSE [s |-> s, ka |-> event_to_key_action(ka.map, ev)]

\* handle_event reading the pending prefix without taking it
handle_event_KeepsPending(s, ev) ==
    IF s.waiting_key_action # NoKeyAction
    THEN handle_waiting_command(s, s.waiting_key_action, ev)
    ELSE IF s.mode = "Normal" THEN handle_normal_event(s, ev)
    ELSE handle_insert_event(s, ev)

\* run() handles Event::Resize before it calls handle_event
handle_event(s, ev) ==
    IF s.waiting_key_action # NoKeyAction
    THEN handle_waiting_command([s EXCEPT !.waiting_key_action = NoKeyAction],
                                s.waiting_key_action, ev)
    ELSE IF s.mode = "Normal" THEN handle_normal_event(s, ev)
    ELSE handle_insert_event(s, ev)

\* self.execute(&action, &mut buffer)? as run() calls it; s.executed lists
\* the Actions run() has passed to execute since read() returned
RunExecute(s, action) ==
    Execute([s EXCEPT !.executed = Append(@, action)], action)

RECURSIVE ExecuteAll(_, _, _)
\* KeyAction::Multiple: for action in actions { if execute(action)? { break } }
ExecuteAll(s, actions, i) ==
    IF i > Len(actions) \/ s.status # "ok" THEN s
    ELSE ExecuteAll(RunExecute(s, actions[i]), actions, i + 1)

\* The match on the KeyAction in Editor::run
Dispatch(s, ka) ==
    IF s.status # "ok" THEN s
    ELSE CASE ka.k = "Single" -> RunExecute(s, ka.action)
           [] ka.k = "Multiple" -> ExecuteAll(s, ka.actions, 1)
           [] ka.k = "Nested" -> [s EXCEPT !.waiting_key_action = ka]
           [] OTHER -> s

\* self.stdout.execute(Hide)? and self.stdout.execute(Show)?
Hide(s) == IF s.status # "ok" THEN s ELSE [s EXCEPT !.term.cursor = "hidden"]
Show(s) == IF s.status # "ok" THEN s ELSE [s EXCEPT !.term.cursor = "shown"]

RECURSIVE PrintChanges(_, _, _)
\* MoveTo(x, y) and Print(cell.c) in the colours of the cell, for each
\* change from number i on: the cell is what the screen shows at (x, y)
PrintChanges(scr, change_set, i) ==
    IF i > Len(change_set) THEN scr
    ELSE LET change == change_set[i]
             pos == change.y * scr.width + change.x
         IN PrintChanges(IF pos < Len(scr.cells)
                         THEN [scr EXCEPT !.cells[pos + 1] = change.cell]
                         ELSE scr,
                         change_set, i + 1)

\* Clear(All), MoveTo(0, 0) and the Print of every cell of the grid in
\* turn, on a screen of the size of the terminal: a row that is full wraps
PrintGrid(s) ==
    IF s.status # "ok" \/ ~Followed(s) THEN s
    ELSE [s EXCEPT !.screen =
             [width |-> s.size[1], height |-> s.size[2],
              cells |-> [pos \in 1..(s.size[1] * s.size[2]) |->
                            IF pos <= Len(s.grid.cells) THEN s.grid.cells[pos]
                            ELSE Cell(" ", "default")]]]

\* render_diff queues the changes and the cursor and flushes them: s.io
\* tells whether the terminal refuses the write
render_diff(s) ==
    IF s.status # "ok" THEN s
    ELSE IF s.io THEN IoError(s)
    ELSE IF ~Followed(s) THEN s
    ELSE LET change_set == diff(s.grid, s.previous)
         IN IF change_set.panic THEN Panic(s)
            ELSE [s EXCEPT !.screen =
                               PrintChanges(s.screen, change_set.changes, 1)]

\* draw_cursor: the cursor style and position, then draw_statusline
draw_cursor(s) == draw_statusline(s)

\* the frame with the status line drawn after the changes were printed
Frame_StatusAfterDiff(s) ==
    Show(draw_cursor(draw_statusline(render_diff(Hide(s)))))

\* The end of an iteration of the loop of Editor::run, which Quit does not
\* reach: the frame, drawn with the cursor hidden
Frame(s) == Show(draw_cursor(render_diff(draw_statusline(Hide(s)))))

\* One iteration of the loop of Editor::run from read() on, for a key event
\* or an event that is neither a key nor a resize
RunEvent(s, ev) ==
    LET r == handle_event(s, ev)
    IN Frame(Dispatch(r.s, r.ka))

\* The start of run(): raw mode, the alternate screen, and the first frame
EnterTerminal(s) == [s EXCEPT !.term.raw = TRUE, !.term.alt = TRUE]

\* render: draw_viewport?, draw_gutter, draw_statusline, every cell printed,
\* draw_cursor
render(s) ==
    draw_cursor(PrintGrid(draw_statusline(draw_gutter(draw_viewport(s)))))

\* buffer = RenderBuffer::new(size.0, size.1, theme.style)
NewRenderBuffer(s) ==
    IF Followed(s)
    THEN [s EXCEPT !.grid = RenderBufferNew(s.size[1], s.size[2], "default")]
    ELSE s

\* Event::Resize(width, height): set the size and render the whole frame
\* on a new RenderBuffer
RunResize(s, sz) == render(NewRenderBuffer([s EXCEPT !.size = sz]))

\* let current_buffer = buffer.clone() at the top of the loop
CloneBuffer(s) == [s EXCEPT !.previous = s.grid]

----------------------------------------------------------------------------
(* The RenderBuffer of run() *)

NoGridOp == [op |-> "none"]

\* no RenderBuffer: run() has not created one
GridIdle ==
    /\ render_buffer = RenderBufferNew(0, 0, "default")
    /\ current_buffer = render_buffer
    /\ changes = <<>>
    /\ screen = render_buffer
    /\ grid_op = NoGridOp
    /\ grid_status = "ok"

----------------------------------------------------------------------------
(* State record <-> variables *)

\* What a step can meet: the highlight call number hl failing (-1: none),
\* or the terminal refusing what render_diff writes
NoFailure == [hl |-> -1, io |-> FALSE]
Failures == {NoFailure, [hl |-> 0, io |-> FALSE], [hl |-> -1, io |-> TRUE]}

\* The editor as an event finds it.  f and overflow_checks are what the
\* event will meet: the call that fails, and the build.
Self(f, oc) ==
    [buffer |-> buffer, vtop |-> vtop, cx |-> cx, cy |-> cy, mode |-> mode,
     waiting_key_action |-> waiting_key_action, undo_actions |-> undo_actions,
     insert_undo_actions |-> insert_undo_actions, vx |-> vx, size |-> size,
     status |-> status, term |-> term, hl |-> f.hl, io |-> f.io, hl_calls |-> 0,
     overflow_checks |-> oc, wrapped |-> FALSE, executed |-> <<>>,
     grid |-> render_buffer, previous |-> current_buffer, screen |-> screen]

\* The steps of run(): the render before the loop, check_bounds, and the
\* rest of an iteration for the event read() returned, or for a key that
\* handle_event resolved to KeyAction::Single(action)
StartStep == [t |-> "start"]
BoundsStep == [t |-> "bounds"]
EventStep(ev) == [t |-> "event", ev |-> ev]
ActionStep(action) == [t |-> "action", action |-> action]
ResizeStep(sz) == [t |-> "resize", size |-> sz]

RunStep(s, step) ==
    CASE step.t = "start" -> render(EnterTerminal(s))
      [] step.t = "bounds" -> check_bounds(CloneBuffer(s))
      [] step.t = "resize" -> RunResize(s, step.size)
      [] step.t = "event" -> RunEvent(s, step.ev)
      [] step.t = "action" -> Frame(Dispatch(s, Single(step.action)))

\* The outcomes of a step of the program: with every call succeeding or
\* one of them failing, and, where an underflow wraps and the build is not
\* known to be a release build, the panic of a debug build
Outcomes(step) ==
    {RunStep(Self(f, oc), step) :
        f \in Failures, oc \in IF build = "any" THEN BOOLEAN ELSE {FALSE}}

\* A step that ends run() (Quit, an error, a panic) leaves the editor as
\* the event found it, and the terminal as it is
Commit(s, next_pc) ==
    /\ term' = s.term
    /\ IF s.status = "ok"
       THEN /\ buffer' = s.buffer
            /\ vtop' = s.vtop
            /\ cx' = s.cx
            /\ cy' = s.cy
            /\ mode' = s.mode
            /\ waiting_key_action' = s.waiting_key_action
            /\ undo_actions' = s.undo_actions
            /\ insert_undo_actions' = s.insert_undo_actions
            /\ vx' = s.vx
            /\ size' = s.size
            /\ build' = IF s.wrapped THEN "release" ELSE build
            /\ status' = "ok"
            /\ pc' = next_pc
       ELSE /\ UNCHANGED <<buffer, vtop, cx, cy, mode, waiting_key_action,
                           undo_actions, insert_undo_actions, vx, size, build>>
            /\ status' = s.status
            /\ pc' = "done"

\* Editor::with_size, for a buffer and a terminal size
Constructed(lines, sz) ==
    /\ buffer = lines
    /\ vtop = 0 /\ cx = 0 /\ cy = 0
    /\ mode = "Normal"
    /\ waiting_key_action = NoKeyAction
    /\ undo_actions = <<>>
    /\ insert_undo_actions = <<>>
    /\ vx = Digits(Len(lines)) + 2
    /\ size = sz
    /\ build = "any"
    /\ status = "ok"
    /\ term = [raw |-> FALSE, alt |-> FALSE, cursor |-> "shown"]
    /\ pc = "start"

NoLast ==
    [ev |-> OtherEvent, mode |-> "Normal", pre |-> NoKeyAction,
     ka |-> NoKeyAction, executed |-> <<>>, after_drop |-> FALSE]
NoScn == [kind |-> "none"]
NoCall == [op |-> "none"]

\* The model follows a run while it stays within the bounds
WithinBounds(s) ==
    /\ Len(s.buffer) <= MaxLines
    /\ \A i \in 1..Len(s.buffer) : Len(s.buffer[i]) <= MaxLineLen
    /\ Len(s.undo_actions) <= MaxUndo
    /\ Len(s.insert_undo_actions) <= MaxInsertUndo
    /\ ULe(s.vtop, MaxVtop)

Start ==
    /\ pc = "start" /\ status = "ok"
    /\ \E s \in Outcomes(StartStep) : Commit(s, "bounds")
    /\ UNCHANGED <<histVars, gridVars>>

\* The top of the loop of run(): check_bounds, then read() blocks
CheckBounds ==
    /\ pc = "bounds" /\ status = "ok"
    /\ \E s \in Outcomes(BoundsStep) : Commit(s, "read")
    /\ UNCHANGED <<histVars, gridVars>>

\* read() returns an error and run() returns it
ReadError ==
    /\ pc = "read" /\ status = "ok"
    /\ status' = "io_error"
    /\ pc' = "done"
    /\ UNCHANGED <<buffer, vtop, cx, cy, mode, waiting_key_action,
                   undo_actions, insert_undo_actions, vx, size, build, term>>
    /\ UNCHANGED <<histVars, gridVars>>

\* run() has ended, by returning or by a panic that unwinds, and the Editor
\* is dropped: flush, LeaveAlternateScreen, disable_raw_mode
DropEditor ==
    /\ pc = "done"
    /\ term' = [term EXCEPT !.alt = FALSE, !.raw = FALSE]
    /\ pc' = "exited"
    /\ UNCHANGED <<buffer, vtop, cx, cy, mode, waiting_key_action,
                   undo_actions, insert_undo_actions, vx, size, build, status>>
    /\ UNCHANGED <<histVars, gridVars>>

\* One iteration of the loop of run(), from read() to the frame drawn,
\* with the outcome s
Input(s) ==
    /\ pc = "read" /\ status = "ok"
    /\ WithinBounds(s)
    /\ Commit(s, "bounds")
    /\ UNCHANGED gridVars

----------------------------------------------------------------------------
(* SpecMove: cursor movement on a fixed buffer.  Each step is one iteration *)
(* of the loop of Editor::run for a key mapped to a single movement Action: *)
(* execute, draw the frame, and at the top of the next iteration            *)
(* check_bounds.                                                            *)

RECURSIVE Rep(_)
Rep(n) == IF n = 0 THEN <<>> ELSE <<"a">> \o Rep(n - 1)

MoveLines == {Rep(n) : n \in 0..MoveMaxLineLen}

MoveBuffers == UNION {[1..n -> MoveLines] : n \in 0..MoveMaxLines}

MoveSizes == {<<16, h>> : h \in {3, 4, 5, 6}}

InitMove ==
    /\ \E lines \in MoveBuffers, sz \in MoveSizes : Constructed(lines, sz)
    /\ last = NoLast
    /\ scn = NoScn
    /\ call = NoCall
    /\ GridIdle

\* A key mapped to a movement: execute(action), then the frame
MoveAct(action) ==
    /\ pc = "read" /\ status = "ok"
    /\ \E s \in Outcomes(ActionStep(action)) :
          ULe(s.vtop, MaxVtop) /\ Commit(s, "bounds")
    /\ UNCHANGED <<histVars, gridVars>>

MoveUp == MoveAct(Act("MoveUp"))
MoveDown == MoveAct(Act("MoveDown"))
MoveLeft == MoveAct(Act("MoveLeft"))
MoveRight == MoveAct(Act("MoveRight"))
MoveToLineStart == MoveAct(Act("MoveToLineStart"))
MoveToLineEnd == MoveAct(Act("MoveToLineEnd"))
PageUp == MoveAct(Act("PageUp"))
PageDown == MoveAct(Act("PageDown"))
MoveToTop == MoveAct(Act("MoveToTop"))
MoveToBottom == MoveAct(Act("MoveToBottom"))
MoveLineToViewportCenter == MoveAct(Act("MoveLineToViewportCenter"))

NextMove ==
    \/ Start
    \/ CheckBounds
    \/ ReadError
    \/ DropEditor
    \/ MoveUp \/ MoveDown \/ MoveLeft \/ MoveRight
    \/ MoveToLineStart \/ MoveToLineEnd
    \/ PageUp \/ PageDown
    \/ MoveToTop \/ MoveToBottom \/ MoveLineToViewportCenter

SpecMove == InitMove /\ [][NextMove]_vars

----------------------------------------------------------------------------
(* Spec: edit sessions and undo.  The editor is driven through the key     *)
(* tables by the keys that move the cursor, type text, delete a line and   *)
(* undo.                                                                    *)

Chars == {"a", "b"}

InitLines == {<<>>, <<"a">>, <<"a", "b">>}

InitBuffers == UNION {[1..n -> InitLines] : n \in 0..MaxLines}

EditSize == <<16, 4>>

\* The keys the user presses
EditEvents ==
    IF mode = "Normal" \/ waiting_key_action # NoKeyAction
    THEN {KeyEvent(key) : key \in {"h", "j", "k", "l", "i", "u", "d"}}
    ELSE {KeyEvent(key) : key \in Chars \cup {"Esc"}}

\* What the last event did, from the state it found and the KeyAction
\* handle_event returned for it
NextScn(ka) ==
    CASE ka = Single(EnterMode("Insert")) /\ mode = "Normal" ->
             [kind |-> "session", buffer0 |-> buffer,
              undo0 |-> Len(undo_actions), n |-> 0]
      [] ka.k = "Single" /\ ka.action.t = "InsertCharAtCursorPos"
             /\ scn.kind = "session" ->
             [scn EXCEPT !.n = scn.n + 1]
      [] ka = Single(EnterMode("Normal")) /\ scn.kind = "session" /\ scn.n >= 1 ->
             [scn EXCEPT !.kind = "closed"]
      [] ka = Single(Act("Undo")) /\ scn.kind = "closed" ->
             [scn EXCEPT !.kind = "undone"]
      [] ka = Single(Act("DeleteCurrentLine")) ->
             [kind |-> "deleted", buffer0 |-> buffer,
              undo0 |-> Len(undo_actions), n |-> buffer_line(Self(NoFailure, FALSE))]
      [] ka = Single(Act("Undo")) /\ scn.kind = "deleted" ->
             [scn EXCEPT !.kind = "restored"]
      [] ka.k \in {"None", "Nested"} -> scn
      [] OTHER -> NoScn

KeyPress ==
    \E ev \in EditEvents :
        \E s \in Outcomes(EventStep(ev)) :
            /\ Input(s)
            /\ scn' = NextScn(handle_event(Self(NoFailure, FALSE), ev).ka)
            /\ UNCHANGED <<last, call>>

Init ==
    /\ \E lines \in InitBuffers : Constructed(lines, EditSize)
    /\ last = NoLast
    /\ scn = NoScn
    /\ call = NoCall
    /\ GridIdle

Next == Start \/ CheckBounds \/ KeyPress

Spec == Init /\ [][Next]_vars

----------------------------------------------------------------------------
(* SpecKeys: key routing.  Every key of the tables, a character and a key  *)
(* that no table maps, and an event that is no key, on a run that starts   *)
(* from one buffer; `last` records each iteration of the loop.             *)

KeysMaxLineLen == 1
KeysMaxUndo == 1
KeysMaxInsertUndo == 1

KeysBuffer == <<<<"a">>, <<>>>>

KeysWithin(s) ==
    /\ \A i \in 1..Len(s.buffer) : Len(s.buffer[i]) <= KeysMaxLineLen
    /\ Len(s.undo_actions) <= KeysMaxUndo
    /\ Len(s.insert_undo_actions) <= KeysMaxInsertUndo

KeysEvents ==
    {OtherEvent} \cup
    IF mode = "Normal"
    THEN {KeyEvent(code) :
             code \in (DOMAIN NormalKeys \ {"Ctrl-b", "Ctrl-f"})
                          \cup {"b", "F1", "Esc"}}
         \cup {CtrlKeyEvent("b"), CtrlKeyEvent("f")}
    ELSE {KeyEvent(code) : code \in DOMAIN InsertKeys \cup {"a", "F1"}}

KeysPress ==
    \E ev \in KeysEvents :
        \E s \in Outcomes(EventStep(ev)) :
            /\ KeysWithin(s)
            /\ Input(s)
            /\ last' = [ev |-> ev, mode |-> mode,
                        pre |-> waiting_key_action,
                        ka |-> handle_event(Self(NoFailure, FALSE), ev).ka,
                        executed |-> s.executed,
                        after_drop |-> /\ last.pre # NoKeyAction
                                       /\ last.ka = NoKeyAction]
            /\ UNCHANGED <<scn, call>>

InitKeys ==
    /\ Constructed(KeysBuffer, EditSize)
    /\ last = NoLast
    /\ scn = NoScn
    /\ call = NoCall
    /\ GridIdle

NextKeys == Start \/ CheckBounds \/ KeysPress

SpecKeys == InitKeys /\ [][NextKeys]_vars

----------------------------------------------------------------------------
(* SpecExec: Editor::execute in either mode.  Each step is one iteration   *)
(* of the loop of Editor::run for a key that the table of the mode maps to *)
(* a single Action, whatever the mode: the tables are configuration.       *)

ExecMaxLineLen == 2
ExecMaxUndo == 2
ExecMaxInsertUndo == 2

ExecBuffers == {<<<<>>>>}

ExecWithin(s) ==
    /\ \A i \in 1..Len(s.buffer) : Len(s.buffer[i]) <= ExecMaxLineLen
    /\ Len(s.undo_actions) <= ExecMaxUndo
    /\ Len(s.insert_undo_actions) <= ExecMaxInsertUndo

ExecActions ==
    {EnterMode("Normal"), EnterMode("Insert"), InsertCharAtCursorPos("a"),
     Act("InsertLineAtCursor"), Act("InsertLineBelowCursor"),
     Act("DeleteCurrentLine"), Act("Undo")}

Exec ==
    \E action \in ExecActions :
        \E s \in Outcomes(ActionStep(action)) :
            /\ ExecWithin(s)
            /\ Input(s)
            /\ last' = [NoLast EXCEPT !.mode = mode, !.ka = Single(action),
                                      !.executed = s.executed]
            /\ UNCHANGED <<scn, call>>

InitExec ==
    /\ \E lines \in ExecBuffers : Constructed(lines, EditSize)
    /\ last = NoLast
    /\ scn = NoScn
    /\ call = NoCall
    /\ GridIdle

NextExec == Start \/ CheckBounds \/ Exec

SpecExec == InitExec /\ [][NextExec]_vars

----------------------------------------------------------------------------
(* SpecSession: insert sessions that insert, delete and move.  As SpecExec, *)
(* on a line that has a character before the first session, with the       *)
(* actions of each mode: sessions insert "b" only, so every "a" is a       *)
(* character from before the sessions.                                     *)

SessionMaxLineLen == 2
SessionMaxUndo == 1
SessionMaxInsertUndo == 2

SessionBuffers == {<<<<"a">>>>}

SessionWithin(s) ==
    /\ \A i \in 1..Len(s.buffer) : Len(s.buffer[i]) <= SessionMaxLineLen
    /\ Len(s.undo_actions) <= SessionMaxUndo
    /\ Len(s.insert_undo_actions) <= SessionMaxInsertUndo

SessionActions ==
    IF mode = "Normal"
    THEN {EnterMode("Insert"), Act("Undo")}
    ELSE {InsertCharAtCursorPos("b"), Act("DeletePreviousChar"),
          Act("DeleteCharAtCursorPos"), Act("MoveLeft"), EnterMode("Normal")}

SessionExec ==
    \E action \in SessionActions :
        \E s \in Outcomes(ActionStep(action)) :
            /\ SessionWithin(s)
            /\ Input(s)
            /\ last' = [NoLast EXCEPT !.mode = mode, !.ka = Single(action),
                                      !.executed = s.executed]
            /\ UNCHANGED <<scn, call>>

InitSession ==
    /\ \E lines \in SessionBuffers : Constructed(lines, EditSize)
    /\ last = NoLast
    /\ scn = NoScn
    /\ call = NoCall
    /\ GridIdle

NextSession == Start \/ CheckBounds \/ SessionExec

SpecSession == InitSession /\ [][NextSession]_vars

----------------------------------------------------------------------------
(* SpecLifo: edits, then Undo until the log is empty.  As SpecExec, from   *)
(* several buffers; scn keeps the buffer the editor was constructed with,  *)
(* and the length of the undo log that the last Undo found.                *)
(* While scn.kind is "editing" the steps are the undoable edits of Normal  *)
(* mode, insert sessions that insert characters, and cursor movement in    *)
(* both modes; from the first Undo on (scn.kind "undoing") every step is   *)
(* an Undo.                                                                *)

LifoMaxLineLen == 2
LifoMaxUndo == 2
LifoMaxInsertUndo == 2

LifoLines == {<<>>, <<"a">>}

LifoBuffers == UNION {[1..n -> LifoLines] : n \in 0..2}

LifoWithin(s) ==
    /\ \A i \in 1..Len(s.buffer) : Len(s.buffer[i]) <= LifoMaxLineLen
    /\ Len(s.undo_actions) <= LifoMaxUndo
    /\ Len(s.insert_undo_actions) <= LifoMaxInsertUndo

LifoMoves == {Act("MoveUp"), Act("MoveDown"), Act("MoveLeft"), Act("MoveRight")}

LifoEdits ==
    IF mode = "Normal"
    THEN {EnterMode("Insert"), Act("InsertLineAtCursor"),
          Act("InsertLineBelowCursor"), Act("DeleteCurrentLine")} \cup LifoMoves
    ELSE {InsertCharAtCursorPos("b"), EnterMode("Normal"), Act("MoveLeft"),
          Act("MoveUp"), Act("MoveDown")}

\* A key of the edit phase
LifoEdit ==
    /\ scn.kind = "editing"
    /\ \E action \in LifoEdits :
          \E s \in Outcomes(ActionStep(action)) :
              /\ LifoWithin(s)
              /\ Input(s)
              /\ last' = [NoLast EXCEPT !.mode = mode, !.ka = Single(action),
                                        !.executed = s.executed]
              /\ UNCHANGED <<scn, call>>

\* The key `u`, in Normal mode: the first one ends the edit phase
LifoUndo ==
    /\ mode = "Normal"
    /\ \E s \in Outcomes(ActionStep(Act("Undo"))) :
          /\ Input(s)
          /\ last' = [NoLast EXCEPT !.mode = mode, !.ka = Single(Act("Undo")),
                                    !.executed = s.executed]
          /\ scn' = [scn EXCEPT !.kind = "undoing", !.log0 = Len(undo_actions)]
          /\ UNCHANGED call

InitLifo ==
    /\ \E lines \in LifoBuffers :
          /\ Constructed(lines, EditSize)
          /\ scn = [kind |-> "editing", buffer0 |-> lines, log0 |-> 0]
    /\ last = NoLast
    /\ call = NoCall
    /\ GridIdle

NextLifo == Start \/ CheckBounds \/ LifoEdit \/ LifoUndo

SpecLifo == InitLifo /\ [][NextLifo]_vars

\* When CheckBounds and LifoUndo can take a step: check_bounds and an
\* iteration of the loop for `u` always end, by returning or by a panic
BoundsEnabled == pc = "bounds" /\ status = "ok"
UndoEnabled == pc = "read" /\ status = "ok" /\ mode = "Normal"

\* run() keeps looping, and the user keeps pressing `u` in Normal mode:
\* WF_vars(Start), WF_vars(CheckBounds) and WF_vars(LifoUndo), the last two
\* written out with the state predicates above for ENABLED
SpecLifoFair ==
    /\ SpecLifo
    /\ WF_vars(Start)
    /\ ([]<>(~BoundsEnabled) \/ []<><<CheckBounds>>_vars)
    /\ ([]<>(~UndoEnabled) \/ []<><<LifoUndo>>_vars)

----------------------------------------------------------------------------
(* SpecRender: the RenderBuffer and the screen through run().  As SpecExec, *)
(* with the cells of the grid that the drawing functions write, the clone   *)
(* taken at the top of the loop, and what render and render_diff print.     *)

RenderMaxLines == 3
RenderMaxLineLen == 2
RenderMaxUndo == 1
RenderMaxInsertUndo == 1

RenderBuffers == {<<<<"a">>, <<>>, <<>>>>}

RenderSizes == {<<16, 4>>, <<16, 5>>}

RenderWithin(s) ==
    /\ Len(s.buffer) <= RenderMaxLines
    /\ \A i \in 1..Len(s.buffer) : Len(s.buffer[i]) <= RenderMaxLineLen
    /\ Len(s.undo_actions) <= RenderMaxUndo
    /\ Len(s.insert_undo_actions) <= RenderMaxInsertUndo
    /\ ~s.wrapped

RenderActions ==
    {Act("MoveUp"), Act("MoveDown"), Act("PageDown"),
     InsertCharAtCursorPos("b"), Act("DeleteCharAtCursorPos")}

\* the step s of run() with its grid, its clone and the screen
RenderCommit(s, next_pc) ==
    /\ Commit(s, next_pc)
    /\ IF s.status = "ok"
       THEN /\ render_buffer' = s.grid
            /\ current_buffer' = s.previous
            /\ screen' = s.screen
       ELSE UNCHANGED <<render_buffer, current_buffer, screen>>
    /\ UNCHANGED <<changes, grid_op, grid_status>>

\* run() has created its RenderBuffer (it depends on the size alone) and
\* nothing has been printed on the screen
InitRender ==
    /\ \E lines \in RenderBuffers : Constructed(lines, EditSize)
    /\ last = NoLast
    /\ scn = NoScn
    /\ call = NoCall
    /\ render_buffer = RenderBufferNew(size[1], size[2], "default")
    /\ current_buffer = render_buffer
    /\ changes = <<>>
    /\ screen = RenderBufferNew(size[1], size[2], "terminal")
    /\ grid_op = NoGridOp
    /\ grid_status = "ok"

RenderStart ==
    /\ pc = "start" /\ status = "ok"
    /\ \E s \in Outcomes(StartStep) : RenderCommit(s, "bounds")
    /\ UNCHANGED histVars

RenderCheckBounds ==
    /\ pc = "bounds" /\ status = "ok"
    /\ \E s \in Outcomes(BoundsStep) : RenderCommit(s, "read")
    /\ UNCHANGED histVars

RenderExec ==
    /\ pc = "read" /\ status = "ok"
    /\ \E action \in RenderActions :
          \E s \in Outcomes(ActionStep(action)) :
              /\ RenderWithin(s)
              /\ RenderCommit(s, "bounds")
              /\ last' = [NoLast EXCEPT !.mode = mode, !.ka = Single(action),
                                        !.executed = s.executed]
    /\ UNCHANGED <<scn, call>>

\* Event::Resize: run() renders on a new RenderBuffer and continues
RenderResize ==
    /\ pc = "read" /\ status = "ok"
    /\ \E sz \in RenderSizes \ {size} :
          \E s \in Outcomes(ResizeStep(sz)) : RenderCommit(s, "bounds")
    /\ last' = [NoLast EXCEPT !.mode = mode, !.ev = [kind |-> "Resize"]]
    /\ UNCHANGED <<scn, call>>

NextRender == RenderStart \/ RenderCheckBounds \/ RenderExec \/ RenderResize

SpecRender == InitRender /\ [][NextRender]_vars

----------------------------------------------------------------------------
(* SpecGutter: the gutter when the number of lines gains or loses a digit. *)
(* As SpecRender, on buffers of nine and of ten lines, with the actions    *)
(* that insert and remove a line.                                          *)

GutterMinLines == 8
GutterMaxLines == 11
GutterMaxUndo == 1

GutterBuffers == {[i \in 1..n |-> <<"a">>] : n \in {9, 10}}

GutterWithin(s) ==
    /\ Len(s.buffer) >= GutterMinLines
    /\ Len(s.buffer) <= GutterMaxLines
    /\ Len(s.undo_actions) <= GutterMaxUndo
    /\ ~s.wrapped

GutterActions ==
    {Act("InsertLineAtCursor"), Act("InsertLineBelowCursor"),
     Act("DeleteCurrentLine"), Act("Undo"), Act("MoveDown")}

InitGutter ==
    /\ \E lines \in GutterBuffers : Constructed(lines, EditSize)
    /\ last = NoLast
    /\ scn = NoScn
    /\ call = NoCall
    /\ render_buffer = RenderBufferNew(size[1], size[2], "default")
    /\ current_buffer = render_buffer
    /\ changes = <<>>
    /\ screen = RenderBufferNew(size[1], size[2], "terminal")
    /\ grid_op = NoGridOp
    /\ grid_status = "ok"

GutterExec ==
    /\ pc = "read" /\ status = "ok"
    /\ \E action \in GutterActions :
          \E s \in Outcomes(ActionStep(action)) :
              /\ GutterWithin(s)
              /\ RenderCommit(s, "bounds")
              /\ last' = [NoLast EXCEPT !.mode = mode, !.ka = Single(action),
                                        !.executed = s.executed]
    /\ UNCHANGED <<scn, call>>

NextGutter == RenderStart \/ RenderCheckBounds \/ GutterExec

SpecGutter == InitGutter /\ [][NextGutter]_vars

----------------------------------------------------------------------------
(* SpecBuffer: the methods of Buffer, called with every line and column    *)
(* up to one past the buffer and its lines; `call` records each call.      *)

BufMaxLines == 2
BufMaxLineLen == 2

BufLines == UNION {[1..n -> Chars] : n \in 0..BufMaxLineLen}

BufBuffers == UNION {[1..n -> BufLines] : n \in 0..BufMaxLines}

BufXs == 0..(BufMaxLineLen + 1)
BufYs == 0..(BufMaxLines + 1)

BufWithin(s) ==
    /\ Len(s.buffer) <= BufMaxLines
    /\ \A i \in 1..Len(s.buffer) : Len(s.buffer[i]) <= BufMaxLineLen

InitBuffer ==
    /\ \E lines \in BufBuffers : Constructed(lines, EditSize)
    /\ last = NoLast
    /\ scn = NoScn
    /\ call = NoCall
    /\ GridIdle

\* a call of a Buffer method that left the editor s and returned ret
Called(s, op, x, y, ret) ==
    /\ pc = "start" /\ status = "ok"
    /\ BufWithin(s)
    /\ Commit(s, "start")
    /\ call' = [op |-> op, x |-> x, y |-> y, before |-> buffer, ret |-> ret,
                panic |-> s.status = "panic"]
    /\ UNCHANGED <<last, scn, gridVars>>

Get ==
    \E line \in BufYs :
        Called(Self(NoFailure, FALSE), "get", 0, line, BufferGet(buffer, line))

Insert ==
    \E x \in BufXs, y \in BufYs, c \in Chars :
        Called(BufferInsert(Self(NoFailure, FALSE), x, y, c),
               "insert", x, y, None)

InsertLine ==
    \E line \in BufYs, content \in BufLines :
        Called(BufferInsertLine(Self(NoFailure, FALSE), line, content),
               "insert_line", 0, line, None)

Remove ==
    \E x \in BufXs, y \in BufYs :
        Called(BufferRemove(Self(NoFailure, FALSE), x, y), "remove", x, y, None)

RemoveLine ==
    \E line \in BufYs :
        Called(BufferRemoveLine(Self(NoFailure, FALSE), line),
               "remove_line", 0, line, None)

\* viewport(vtop, vheight): x is the height and y the top
Viewport ==
    \E top \in BufYs, height \in BufYs :
        LET r == BufferViewport(buffer, top, height)
            s == Self(NoFailure, FALSE)
        IN Called(IF r.panic THEN Panic(s) ELSE s,
                  "viewport", height, top, Some(r.ret))

NextBuffer ==
    Get \/ Insert \/ InsertLine \/ Remove \/ RemoveLine \/ Viewport

SpecBuffer == InitBuffer /\ [][NextBuffer]_vars

----------------------------------------------------------------------------
(* SpecGrid: writes to a RenderBuffer.  Every set_char and set_text on the *)
(* grid run() has created, those past the grid included.                   *)

GridMaxText == 2

GridSizes == {<<1, 1>>, <<2, 1>>, <<1, 2>>, <<2, 2>>}

Styles == {"default", "italic"}

RECURSIVE Texts(_)
\* the texts of at most n characters
Texts(n) ==
    IF n = 0 THEN {<<>>}
    ELSE Texts(n - 1) \cup
         {Append(s, c) : s \in {s \in Texts(n - 1) : Len(s) = n - 1},
                         c \in {" ", "a"}}

\* let mut buffer = RenderBuffer::new(..) in run()
InitGrid ==
    /\ Constructed(<<>>, EditSize)
    /\ last = NoLast
    /\ scn = NoScn
    /\ call = NoCall
    /\ \E sz \in GridSizes :
          render_buffer = RenderBufferNew(sz[1], sz[2], "default")
    /\ current_buffer = render_buffer
    /\ changes = <<>>
    /\ screen = RenderBufferNew(0, 0, "default")
    /\ grid_op = [op |-> "new"]
    /\ grid_status = "ok"

\* a write r to the grid; op records the call
Written(r, op) ==
    /\ render_buffer' = r.rb
    /\ grid_status' = IF r.panic THEN "panic" ELSE "ok"
    /\ grid_op' = op @@ [modified |-> r.rb # render_buffer]
    /\ UNCHANGED <<current_buffer, changes, screen, edVars, histVars>>

SetChar ==
    /\ grid_status = "ok"
    /\ \E x \in 0..render_buffer.width, y \in 0..render_buffer.height,
          cell \in {Cell("a", "default"), Cell("a", "italic")} :
          Written(set_char(render_buffer, x, y, cell.c, cell.style),
                  [op |-> "set_char", x |-> x, y |-> y, s |-> <<cell.c>>,
                   style |-> cell.style])

SetText ==
    /\ grid_status = "ok"
    /\ \E x \in 0..render_buffer.width, y \in 0..render_buffer.height,
          s \in Texts(GridMaxText) :
          Written(set_text(render_buffer, x, y, s, "default"),
                  [op |-> "set_text", x |-> x, y |-> y, s |-> s,
                   style |-> "default"])

NextGrid == SetChar \/ SetText

SpecGrid == InitGrid /\ [][NextGrid]_vars

----------------------------------------------------------------------------
(* SpecDiff: the RenderBuffer through the loop of run().  Each iteration   *)
(* clones the grid, draws on it and diffs it against the clone.            *)

\* let current_buffer = buffer.clone() at the top of the loop
Clone ==
    /\ grid_status = "ok" /\ grid_op.op \in {"new", "diff"}
    /\ current_buffer' = render_buffer
    /\ changes' = <<>>
    /\ grid_op' = [op |-> "clone"]
    /\ UNCHANGED <<render_buffer, grid_status, screen, edVars, histVars>>

\* a cell drawn in the course of the iteration
Draw ==
    /\ grid_status = "ok" /\ grid_op.op \in {"clone", "draw"}
    /\ \E x \in 0..(render_buffer.width - 1),
          y \in 0..(render_buffer.height - 1),
          cell \in {Cell(" ", "default"), Cell("a", "default"),
                    Cell("a", "italic")} :
          LET r == set_char(render_buffer, x, y, cell.c, cell.style)
          IN /\ render_buffer' = r.rb
             /\ grid_status' = IF r.panic THEN "panic" ELSE "ok"
    /\ grid_op' = [op |-> "draw"]
    /\ UNCHANGED <<current_buffer, changes, screen, edVars, histVars>>

\* buffer.diff(&current_buffer) at the end of the iteration
Diff ==
    /\ grid_status = "ok" /\ grid_op.op \in {"clone", "draw"}
    /\ LET r == diff(render_buffer, current_buffer)
       IN /\ changes' = r.changes
          /\ grid_status' = IF r.panic THEN "panic" ELSE "ok"
    /\ grid_op' = [op |-> "diff"]
    /\ UNCHANGED <<render_buffer, current_buffer, screen, edVars, histVars>>

NextDiff == Clone \/ Draw \/ Diff

SpecDiff == InitGrid /\ [][NextDiff]_vars

----------------------------------------------------------------------------
(* Cursor bounds (spec: "Viewport and cursor bounds"), under SpecMove *)

Max(a, b) == IF a > b THEN a ELSE b

\* check_bounds has returned and run() waits in read()
AfterBounds == pc = "read" /\ status = "ok"

BoundsLine == vtop >= 0 /\ cy >= 0 /\ vtop + cy < Max(1, Len(buffer))
BoundsRow == cy >= 0 /\ cy < size[2] - 2
BoundsCol ==
    LET l == BufferGet(buffer, vtop + cy)
    IN cx >= 0 /\ cx < Max(1, IF l.some THEN Len(l.v) ELSE 0)

\* C1: after any sequence of move, page and scroll actions, each followed
\* by check_bounds, on a buffer of any length (the empty one included), the
\* cursor's buffer line satisfies vtop + cy < max(1, buffer_length).
C1_Claim == AfterBounds => BoundsLine

\* C2: after any sequence of move, page and scroll actions, each followed
\* by check_bounds, the cursor row satisfies 0 <= cy < viewport_height,
\* the terminal height minus 2.
C2_Claim == AfterBounds => BoundsRow

\* C3: in Normal mode, after any sequence of cursor movements, each followed
\* by check_bounds, the cursor column satisfies
\* cx < max(1, length of the line at vtop + cy).
C3_Claim == (AfterBounds /\ mode = "Normal") => BoundsCol

\* The cursor was moved down onto the last character of a line shorter than
\* the line above it
C3_Witness ==
    /\ AfterBounds /\ mode = "Normal"
    /\ Len(buffer) >= 2 /\ vtop + cy = 1
    /\ Len(buffer[2]) >= 1 /\ Len(buffer[1]) > Len(buffer[2])
    /\ cx = Len(buffer[2]) - 1

----------------------------------------------------------------------------
(* Undo (spec: "Undo log"), under Spec *)

\* C4: starting in Normal mode, EnterMode(Insert), N >= 1
\* InsertCharAtCursorPos, EnterMode(Normal) and then one Undo restore the
\* buffer to its contents before the session and the undo log to its length
\* before the session; Undo does not panic.  (An Undo that a highlighting
\* error ends has restored nothing and is not what the claim is about.)
C4_Claim ==
    scn.kind = "undone" =>
        /\ status # "panic"
        /\ status = "ok" =>
              /\ buffer = scn.buffer0
              /\ Len(undo_actions) = scn.undo0

\* A session of two insertions into a non-empty buffer has been undone
C4_Witness ==
    /\ scn.kind = "undone" /\ status = "ok"
    /\ scn.n >= 2 /\ scn.buffer0 # <<>>
    /\ buffer = scn.buffer0

\* InsertCharAtCursorPos(c) and then the inverse it recorded, from the
\* state run() waits in
InsertThenInverse(c) ==
    LET s0 == Self(NoFailure, FALSE)
        s1 == ExecInsertCharAtCursorPos(s0, c)
        inverse == s1.insert_undo_actions[Len(s1.insert_undo_actions)]
    IN [inserted |-> s1, inverse |-> inverse, undone |-> Execute(s1, inverse)]

\* C5: for every line text, every cursor column 0 <= cx <= line length and
\* every character c, with the cursor on a row of the viewport,
\* InsertCharAtCursorPos(c) records RemoveCharAt(cx, buffer_line) with the
\* cx before the insertion, and executing that inverse after the insertion
\* leaves the line equal to its text before the insertion and every other
\* line unchanged.  (Off the viewport, where the underflow of check_bounds
\* can leave cy, draw_line panics and no inverse is ever executed.)
C5_Claim ==
    (AfterBounds /\ BoundsRow /\ cx >= 0 /\ cx <= line_length(Self(NoFailure, FALSE))) =>
        \A c \in Chars :
            LET r == InsertThenInverse(c)
            IN /\ r.inverse = [t |-> "RemoveCharAt", x |-> cx, y |-> vtop + cy]
               /\ r.inserted.status = "ok"
               /\ r.undone.status = "ok"
               /\ r.undone.buffer = buffer

\* An insertion between the two characters of a line that has another line
\* above it: the insertion changes the line, the inverse restores it
C5_Witness ==
    /\ AfterBounds /\ mode = "Insert"
    /\ vtop + cy = 1 /\ Len(buffer) = 2 /\ Len(buffer[2]) = 2 /\ cx = 1
    /\ buffer[2][1] # buffer[2][2]
    /\ \E c \in Chars :
          LET r == InsertThenInverse(c)
          IN /\ r.inserted.buffer[2] = <<buffer[2][1], c, buffer[2][2]>>
             /\ r.undone.buffer = buffer

\* C6: for every non-empty buffer and every cursor line, DeleteCurrentLine
\* and then Undo yield a buffer whose lines are those before the delete,
\* the removed line back at its index; Undo does not panic.
C6_Claim ==
    (scn.kind = "restored" /\ scn.buffer0 # <<>>) =>
        /\ status # "panic"
        /\ status = "ok" => buffer = scn.buffer0

\* The first of two different lines was deleted and is back
C6_Witness ==
    /\ scn.kind = "restored" /\ status = "ok"
    /\ Len(scn.buffer0) = 2 /\ scn.n = 0
    /\ scn.buffer0[1] # scn.buffer0[2]
    /\ buffer = scn.buffer0

----------------------------------------------------------------------------
(* Key routing (spec: "Key resolution"), under SpecKeys *)

\* the last event found a prefix pending, and is a key of its nested table
LastPending == last.pre.k = "Nested"
LastMapped ==
    /\ LastPending
    /\ last.ev.kind = "Key"
    /\ KeyString(last.ev) \in DOMAIN last.pre.map

\* run() passed action to execute for the last event
LastExecuted(action) ==
    \E i \in 1..Len(last.executed) : last.executed[i] = action

\* C7: with k1 k2 mapped through the nested table under k1 to Action A, A is
\* executed when k2 is the key event that follows k1, and only then; a key
\* after k1 that is not in the nested table executes no Action and clears
\* the pending prefix, and the key after it is resolved against the
\* top-level table of the mode.
C7_Claim ==
    /\ LastMapped =>
          last.executed = <<last.pre.map[KeyString(last.ev)].action>>
    /\ \A k1 \in DOMAIN NormalKeys :
          NormalKeys[k1].k = "Nested" =>
              \A k2 \in DOMAIN NormalKeys[k1].map :
                  LastExecuted(NormalKeys[k1].map[k2].action) =>
                      /\ last.pre = NormalKeys[k1]
                      /\ last.ev = KeyEvent(k2)
    /\ (LastPending /\ ~LastMapped) =>
          /\ last.ka = NoKeyAction
          /\ last.executed = <<>>
          /\ status = "ok" => waiting_key_action = NoKeyAction
    /\ last.after_drop =>
          /\ last.pre = NoKeyAction
          /\ last.mode = "Normal"
          /\ last.ka = event_to_key_action(NormalKeys, last.ev)

\* d d has deleted a line
C7_Witness ==
    /\ last.pre = NormalKeys["d"] /\ last.ev = KeyEvent("d")
    /\ last.executed = <<Act("DeleteCurrentLine")>>
    /\ status = "ok" /\ waiting_key_action = NoKeyAction
    /\ Len(buffer) = Len(KeysBuffer) - 1

----------------------------------------------------------------------------
(* RenderBuffer (spec: "Render grid") *)

\* the changes diff has to list: the positions where the grids differ
Differing ==
    {pos \in 0..(Len(render_buffer.cells) - 1) :
        render_buffer.cells[pos + 1] # current_buffer.cells[pos + 1]}

ChangePos(change) == change.y * render_buffer.width + change.x

\* C8: diff on two grids of equal dimensions returns exactly one Change for
\* each position whose cell (character or style) differs and none for the
\* others, in row-major order, each with the coordinates
\* (pos % width, pos / width) and the cell of the grid diff was called on.
\* Under SpecDiff.
C8_Claim ==
    grid_op.op = "diff" =>
        /\ grid_status = "ok"
        /\ Len(changes) = Cardinality(Differing)
        /\ \A i \in 1..Len(changes) :
              /\ changes[i].x >= 0 /\ changes[i].x < render_buffer.width
              /\ changes[i].y >= 0 /\ changes[i].y < render_buffer.height
              /\ ChangePos(changes[i]) \in Differing
              /\ changes[i].cell = render_buffer.cells[ChangePos(changes[i]) + 1]
        /\ \A i, j \in 1..Len(changes) :
              i < j => ChangePos(changes[i]) < ChangePos(changes[j])
        /\ render_buffer = current_buffer => changes = <<>>

\* A diff of 2x2 grids that lists a cell of each row, one of them differing
\* in style only, and leaves out the cells that are equal
C8_Witness ==
    /\ grid_op.op = "diff" /\ grid_status = "ok"
    /\ render_buffer.width = 2 /\ render_buffer.height = 2
    /\ Len(changes) = 2
    /\ changes[1].y = 0 /\ changes[2].y = 1
    /\ changes[2].cell.c = current_buffer.cells[ChangePos(changes[2]) + 1].c

\* the arguments of the writes the claims are about
WriteXs == 0..(render_buffer.width + 1)
WriteYs == 0..(render_buffer.height + 1)
WriteTexts == Texts(GridMaxText + 1)

\* the last write was past the grid: a column or a row that is not of the
\* grid, or a text that extends beyond the last column of its row
LastPastGrid ==
    /\ grid_op.op \in {"set_char", "set_text"}
    /\ grid_op.s # <<>>
    /\ \/ grid_op.y >= render_buffer.height
       \/ grid_op.x + Len(grid_op.s) > render_buffer.width

\* C9 as it is stated: set_char with x >= w or y >= h, and set_text whose
\* text would extend beyond column w-1 of row y or beyond the last row,
\* panic instead of modifying any cell.  Under SpecGrid.
C9_Stated == LastPastGrid => (grid_status = "panic" /\ ~grid_op.modified)

\* C9: set_char(x, y, ..) panics exactly when y*w + x >= w*h, and then has
\* modified no cell; set_text(x, y, s, ..) panics exactly when s is not
\* empty and y*w + x + len(s) > w*h, and then has written the characters of
\* s whose positions are below w*h and nothing else.  Under SpecGrid.
C9_Claim ==
    grid_status = "ok" =>
        \A x \in WriteXs, y \in WriteYs, style \in Styles :
            LET pos == y * render_buffer.width + x
                n == render_buffer.width * render_buffer.height
            IN /\ \A c \in {" ", "a"} :
                     LET r == set_char(render_buffer, x, y, c, style)
                     IN /\ r.panic <=> pos >= n
                        /\ r.panic => r.rb = render_buffer
               /\ \A s \in WriteTexts :
                     LET r == set_text(render_buffer, x, y, s, style)
                     IN /\ r.panic <=> (s # <<>> /\ pos + Len(s) > n)
                        /\ r.panic =>
                              \A p \in 0..(n - 1) :
                                  r.rb.cells[p + 1] =
                                      IF p >= pos
                                      THEN Cell(s[p - pos + 1], style)
                                      ELSE render_buffer.cells[p + 1]

\* A set_text that ran past the last cell has panicked, after it wrote
\* the characters that fit
C9_Witness ==
    /\ grid_op.op = "set_text" /\ grid_status = "panic"
    /\ grid_op.modified
    /\ grid_op.y < render_buffer.height /\ grid_op.x < render_buffer.width

\* C10: after set_text(x, y, s, style), for every i in [0, len(s)) the cell
\* at position y*width + x + i holds the i-th character of s with the given
\* style, and every other cell is unchanged.  Under SpecGrid.
C10_Claim ==
    grid_status = "ok" =>
        \A x \in WriteXs, y \in WriteYs, style \in Styles, s \in WriteTexts :
            LET pos == y * render_buffer.width + x
                r == set_text(render_buffer, x, y, s, style)
            IN ~r.panic =>
                  /\ Len(r.rb.cells) = Len(render_buffer.cells)
                  /\ \A p \in 0..(Len(render_buffer.cells) - 1) :
                        r.rb.cells[p + 1] =
                            IF p >= pos /\ p < pos + Len(s)
                            THEN Cell(s[p - pos + 1], style)
                            ELSE render_buffer.cells[p + 1]

\* set_text(1, 0, two different characters) on a 2x2 grid whose first cell
\* was italic: the text is in the cells 1 and 2, the first cell is as it was
C10_Witness ==
    /\ grid_op.op = "set_text" /\ grid_status = "ok"
    /\ render_buffer.width = 2 /\ render_buffer.height = 2
    /\ grid_op.x = 1 /\ grid_op.y = 0
    /\ Len(grid_op.s) = 2 /\ grid_op.s[1] # grid_op.s[2]
    /\ render_buffer.cells[2] = Cell(grid_op.s[1], grid_op.style)
    /\ render_buffer.cells[3] = Cell(grid_op.s[2], grid_op.style)
    /\ render_buffer.cells[1] = Cell("a", "italic")

----------------------------------------------------------------------------
(* Buffer (spec: "LineStore"), under SpecBuffer *)

\* the lines viewport(top, height) has to return: those with indices in
\* [top, min(top + height, length))
ViewportLines(lines, top, height) ==
    LET end == IF top + height < Len(lines) THEN top + height ELSE Len(lines)
    IN [i \in 1..Max(0, end - top) |-> lines[top + i]]

\* C11: for every buffer, every top and every height, viewport(top, height)
\* returns the lines with indices in [top, min(top + height, length)) joined
\* by single newlines, with no trailing newline; when top >= length the
\* result is the empty text.
C11_Claim ==
    call.op = "viewport" =>
        /\ ~call.panic
        /\ call.ret = Some(JoinLines(ViewportLines(call.before, call.y, call.x)))
        /\ call.y >= Len(call.before) => call.ret = Some(<<>>)

\* the last call had a line or a column that is out of range for its method
CallOutOfRange ==
    LET len == Len(call.before)
        line_len == IF call.y < len THEN Len(call.before[call.y + 1]) ELSE 0
    IN CASE call.op = "insert" -> call.y >= len \/ call.x > line_len
         [] call.op = "remove" -> call.y >= len \/ call.x >= line_len
         [] call.op \in {"remove_line", "get"} -> call.y >= len
         [] OTHER -> FALSE

\* C12: insert(x, y, c) with y >= length or x > line length, remove(x, y)
\* with y >= length or x >= line length, remove_line(i) and get(i) with
\* i >= length leave the buffer unchanged (get returns None) and never
\* panic.
C12_Claim ==
    CallOutOfRange =>
        /\ ~call.panic
        /\ buffer = call.before
        /\ call.op = "get" => call.ret = None

----------------------------------------------------------------------------
(* Errors and teardown (spec: "Error handling", "Concurrency") *)

\* C13: a highlighter failure never aborts the editor: when highlight()
\* returns an error during an action that redraws, execute still returns
\* Ok and the run loop continues.  Under SpecKeys: an iteration that
\* executed an Action does not end run() with the error of highlight.
C13_Claim == last.executed # <<>> => status # "error"

\* C14: once run() has enabled raw mode and entered the alternate screen, on
\* every way the editor ends (Quit, an error of read, render or execute, a
\* panic) the alternate screen is left, raw mode is disabled and the cursor
\* is shown before the process exits.  Under SpecMove.
C14_Claim ==
    pc = "exited" =>
        term = [raw |-> FALSE, alt |-> FALSE, cursor |-> "shown"]

----------------------------------------------------------------------------
(* Modes and undo lists (spec: "Modes", "Undo log"), under SpecExec *)

\* the Actions other than EnterMode, with the parameters the state offers
OtherActions ==
    {Act(a) : a \in {"Quit", "MoveUp", "MoveDown", "MoveLeft", "MoveRight",
                     "MoveToLineStart", "MoveToLineEnd", "PageUp", "PageDown",
                     "DeleteCharAtCursorPos", "NewLine", "DeleteCurrentLine",
                     "Undo", "MoveLineToViewportCenter", "InsertLineAtCursor",
                     "InsertLineBelowCursor", "MoveToTop", "MoveToBottom",
                     "DeletePreviousChar"}}
    \cup {InsertCharAtCursorPos("a"),
          [t |-> "SetWaitingKeyAction", key_action |-> NormalKeys["d"]],
          [t |-> "UndoMultiple", actions |-> undo_actions],
          [t |-> "UndoMultiple", actions |-> insert_undo_actions]}
    \cup {[t |-> "RemoveCharAt", x |-> x, y |-> y] : x \in 0..1, y \in 0..1}
    \cup {[t |-> "InsertLineAt", y |-> y, contents |-> c] :
              y \in 0..1, c \in {None, Some(<<"a">>)}}
    \cup {[t |-> "DeleteLineAt", y |-> y] : y \in 0..1}

\* run() has executed one Action in the iteration that ends with this step
Executed(action) ==
    /\ pc = "read" /\ pc' = "bounds"
    /\ last'.executed = <<action>>

\* executing an Action from the state run() waits in
ModeAfter(action) == Execute(Self(NoFailure, FALSE), action).mode

C15_All ==
    AfterBounds =>
        /\ \A action \in OtherActions : ModeAfter(action) = mode
        /\ \A m \in {"Normal", "Insert"} : ModeAfter(EnterMode(m)) = m

C15_Step ==
    /\ mode' # mode =>
          \E m \in {"Normal", "Insert"} : Executed(EnterMode(m))
    /\ \A m \in {"Normal", "Insert"} : Executed(EnterMode(m)) => mode' = m

Recording == {InsertCharAtCursorPos("a"), Act("InsertLineAtCursor"),
              Act("InsertLineBelowCursor"), Act("DeleteCurrentLine")}

C19_Step ==
    \A action \in Recording :
        Executed(action) =>
            IF mode = "Insert"
            THEN /\ Len(insert_undo_actions') = Len(insert_undo_actions) + 1
                 /\ undo_actions' = undo_actions
            ELSE /\ Len(undo_actions') = Len(undo_actions) + 1
                 /\ insert_undo_actions' = insert_undo_actions

\* C19: every mutating action that records an inverse (InsertCharAtCursorPos,
\* InsertLineAtCursor, InsertLineBelowCursor, DeleteCurrentLine) pushes it
\* onto the insert-session group when executed in Insert mode and onto the
\* global undo log when executed in Normal mode, and onto no other list.
C19_Claim == [][C19_Step]_vars

C20_Step ==
    /\ (Executed(EnterMode("Normal")) /\ mode = "Insert") =>
          /\ undo_actions' =
                 IF insert_undo_actions # <<>>
                 THEN Append(undo_actions,
                             [t |-> "UndoMultiple",
                              actions |-> insert_undo_actions])
                 ELSE undo_actions
          /\ insert_undo_actions' = <<>>
    /\ (Executed(EnterMode("Insert")) /\ mode = "Normal") =>
          /\ insert_undo_actions' = <<>>
          /\ undo_actions' = undo_actions

----------------------------------------------------------------------------
(* Bounds and the frame (spec: "Viewport and cursor bounds") *)

\* a frame has been drawn and check_bounds has not run since
FrameDrawn == pc = "bounds" /\ status = "ok"

\* C16: in every iteration of the run loop check_bounds runs after the
\* action of the iteration and before its frame is drawn, so that the
\* cursor position and the status-line position written to the terminal
\* satisfy the bounds invariant (Normal mode cx < max(1, line_length);
\* vtop + cy < max(1, buffer_length)).  Under SpecMove.
C16_Claim == FrameDrawn => (BoundsLine /\ (mode = "Normal" => BoundsCol))

\* C17: in Insert mode, after check_bounds, cx <= length of the current
\* line, for any sequence of MoveRight, vertical moves and insertions and
\* deletions executed in Insert mode.  Under SpecKeys.
C17_Claim ==
    (AfterBounds /\ mode = "Insert") =>
        (cx >= 0 /\ cx <= line_length(Self(NoFailure, FALSE)))

\* C18: under any sequence of actions including structural edits, after
\* check_bounds cy is a valid viewport row (cy < viewport height) and,
\* unless the buffer is empty, vtop + cy is a valid buffer line index
\* (vtop + cy <= length - 1).  Under Spec.
C18_Claim ==
    AfterBounds =>
        /\ cy >= 0 /\ cy < vheight(Self(NoFailure, FALSE))
        /\ buffer # <<>> => (vtop + cy >= 0 /\ vtop + cy <= Len(buffer) - 1)


----------------------------------------------------------------------------
(* Undo and the order of a group, under SpecExec *)

RECURSIVE LastFirst(_, _)

\* the actions of a group executed one by one, the last one first, each on
\* the state the one before left
LastFirst(s, actions) ==
    IF actions = <<>> THEN s
    ELSE LastFirst(Execute(s, actions[Len(actions)]),
                   SubSeq(actions, 1, Len(actions) - 1))

\* the editor after the most recently pushed entry of the log has been
\* taken off the log and executed
MostRecentUndone ==
    LET n == Len(undo_actions)
        top == undo_actions[n]
        popped == [Self(NoFailure, FALSE) EXCEPT
                      !.undo_actions = SubSeq(undo_actions, 1, n - 1)]
    IN IF top.t = "UndoMultiple" THEN LastFirst(popped, top.actions)
       ELSE Execute(popped, top)

C21_All ==
    (AfterBounds /\ undo_actions # <<>>) =>
        LET r == Execute(Self(NoFailure, FALSE), Act("Undo"))
            u == MostRecentUndone
        IN /\ r.status = u.status
           /\ r.buffer = u.buffer
           /\ r.undo_actions = u.undo_actions
           /\ r.cx = u.cx /\ r.cy = u.cy /\ r.vtop = u.vtop

C21_Step ==
    (Executed(Act("Undo")) /\ undo_actions # <<>> /\ status' = "ok") =>
        /\ buffer' = MostRecentUndone.buffer
        /\ undo_actions' = SubSeq(undo_actions, 1, Len(undo_actions) - 1)

----------------------------------------------------------------------------
(* MoveLineToViewportCenter, under SpecMove *)

\* MoveLineToViewportCenter executed from the state run() waits in
Centered == Execute(Self(NoFailure, FALSE), Act("MoveLineToViewportCenter"))

\* C22: MoveLineToViewportCenter never changes which buffer line the cursor
\* is on: vtop + cy is the same before and after; when it scrolls, cy
\* becomes viewport_height / 2; when the buffer does not have the lines to
\* scroll by, it changes neither vtop nor cy.  Checked from the states that
\* satisfy the bounds invariant.
C22_Claim ==
    (AfterBounds /\ BoundsLine /\ BoundsRow) =>
        LET r == Centered
        IN /\ r.status = "ok"
           /\ r.vtop + r.cy = vtop + cy
           /\ r.vtop # vtop => r.cy = vheight(r) \div 2
           /\ r.vtop = vtop => r.cy = cy


----------------------------------------------------------------------------
(* What the grid shows (spec: "RenderGrid & diffing"), under SpecRender *)

\* the characters of row y of a grid from column x to the last column
RowText(g, y, x) ==
    [i \in 1..(g.width - x) |-> g.cells[(y * g.width) + x + i].c]

\* a text followed by blanks, n characters in all
Blanked(text, n) == [i \in 1..n |-> IF i <= Len(text) THEN text[i] ELSE " "]

\* row r of the grid shows, from column vx on, the text of buffer line
\* vtop + r, and nothing where the buffer has no such line
ShowsLine(r) ==
    LET line == BufferGet(buffer, vtop + r)
    IN RowText(render_buffer, r, vx) =
           Blanked(IF line.some THEN line.v ELSE <<>>, size[1] - vx)

\* the gutter of row r shows the line number vtop + r + 1, right-aligned
\* and followed by a blank, and nothing where the buffer has no such line
ShowsNumber(r) ==
    LET number == IF vtop + r < Len(buffer) THEN Decimal(vtop + r + 1)
                  ELSE <<>>
    IN \A x \in 0..(vx - 1) :
          render_buffer.cells[(r * size[1]) + x + 1].c =
              IF x >= vx - 1 - Len(number) /\ x < vx - 1
              THEN number[x - (vx - 1 - Len(number)) + 1]
              ELSE " "

ViewportRows == 0..(size[2] - 3)

ViewportShown == \A r \in ViewportRows : ShowsLine(r) /\ ShowsNumber(r)

\* an iteration of run() that executed an action and drew its frame
ActionDrawn ==
    /\ pc = "read" /\ pc' = "bounds" /\ status' = "ok"
    /\ last'.executed # <<>>

C23_Step ==
    (ActionDrawn /\ (vtop' # vtop \/ Len(buffer') # Len(buffer))) =>
        ViewportShown'

\* C23: after every executed action that changes vtop (MoveUp/MoveDown at
\* an edge, PageUp, PageDown, MoveToTop, MoveToBottom,
\* MoveLineToViewportCenter) or inserts or removes a buffer line, every
\* viewport row r of the render grid shows, from column vx on, the text of
\* buffer line vtop + r (blank when vtop + r >= length) and the gutter of
\* row r shows line number vtop + r + 1.
C23_Claim == [][C23_Step]_vars


\* the in-place character edits, and Undo that replays their inverse
CharEdits == {"InsertCharAtCursorPos", "DeleteCharAtCursorPos",
              "DeletePreviousChar", "RemoveCharAt", "Undo"}

\* an iteration of run() that executed a character edit changed the text
\* of the buffer line that row r of the viewport displays
EditedRow(r) ==
    /\ ActionDrawn /\ last'.executed[1].t \in CharEdits
    /\ Len(buffer') = Len(buffer) /\ vtop' = vtop
    /\ vtop + r < Len(buffer)
    /\ buffer'[vtop + r + 1] # buffer[vtop + r + 1]

C24_Step == \A r \in ViewportRows : EditedRow(r) => ShowsLine(r)'

\* RemoveCharAt(x, y), as Undo replays it, executed from the state run()
\* waits in: the grid it leaves and whether row r shows line vtop + r
Replayed(x, y) ==
    Execute(Self(NoFailure, FALSE), [t |-> "RemoveCharAt", x |-> x, y |-> y])

C24_Replay ==
    (AfterBounds /\ BoundsRow /\ BoundsLine) =>
        \A r \in ViewportRows :
            (vtop + r < Len(buffer) /\ buffer[vtop + r + 1] # <<>>) =>
                LET e == Replayed(0, vtop + r)
                IN e.status = "ok" =>
                      RowText(e.grid, r, vx) =
                          Blanked(e.buffer[vtop + r + 1], size[1] - vx)

\* C24: after every in-place character edit (InsertCharAtCursorPos,
\* DeleteCharAtCursorPos, DeletePreviousChar, RemoveCharAt(cx, line)
\* replayed by Undo), the render-grid row that displays the edited buffer
\* line shows exactly that line's new text from column vx followed by
\* blanks, including when the line has become empty and when the edited
\* line is not the cursor's line.
C24_Claim == [](C24_Replay) /\ [][C24_Step]_vars


\* run() has rendered, and is at the top of the loop or waiting in read()
Rendered == pc \in {"bounds", "read"} /\ status = "ok"

----------------------------------------------------------------------------
(* Mode switches and the pending prefix, under SpecExec *)

SetWaitingKeyAction(key_action) ==
    [t |-> "SetWaitingKeyAction", key_action |-> key_action]

\* the key actions that switch the mode: EnterMode(m) alone, and bundled
\* after a SetWaitingKeyAction
ModeSwitches ==
    {Single(EnterMode(m)) : m \in {"Normal", "Insert"}}
    \cup {Multiple(<<SetWaitingKeyAction(NormalKeys["d"]), EnterMode(m)>>) :
             m \in {"Normal", "Insert"}}

\* C26: a mode switch clears the pending prefix: in every state reached
\* immediately after executing EnterMode(m), including inside a
\* multi-action bundle after SetWaitingKeyAction, waiting_key_action is
\* None.
C26_Claim ==
    AfterBounds =>
        \A ka \in ModeSwitches :
            LET r == Dispatch(Self(NoFailure, FALSE), ka)
            IN r.status = "ok" => r.waiting_key_action = NoKeyAction


----------------------------------------------------------------------------
(* Character and line edits, under SpecExec *)

\* C27: DeleteCharAtCursorPos removes exactly the character at column cx of
\* the current line when the line is non-empty, is a no-op that does not
\* fail when the line is empty or the buffer has no line at vtop + cy, and
\* in every case pushes nothing onto the undo log or the insert-session
\* group.  (For a column past the last character of a non-empty line the
\* formula asks nothing of the buffer.)
C27_Claim ==
    AfterBounds =>
        LET r == Execute(Self(NoFailure, FALSE), Act("DeleteCharAtCursorPos"))
            line == BufferGet(buffer, vtop + cy)
        IN IF line.some /\ line.v # <<>>
           THEN ULt(cx, Len(line.v)) =>
                   /\ r.status = "ok"
                   /\ r.buffer = [buffer EXCEPT ![vtop + cy + 1] =
                                                    RemoveAt(line.v, cx)]
                   /\ r.undo_actions = undo_actions
                   /\ r.insert_undo_actions = insert_undo_actions
           ELSE /\ r.status = "ok"
                /\ r.buffer = buffer
                /\ r.undo_actions = undo_actions
                /\ r.insert_undo_actions = insert_undo_actions


\* an Action from the state run() waits in, and then Undo
ThenUndo(action) ==
    LET r == Execute(Self(NoFailure, FALSE), action)
    IN [done |-> r, undone |-> Execute(r, Act("Undo"))]

\* the action inserted an empty line at index, left the cursor on the
\* line cursor_line in column 0, recorded DeleteLineAt(index), and Undo
\* restored the lines
InsertedLine(action, index, cursor_line) ==
    LET r == ThenUndo(action)
    IN /\ r.done.status = "ok"
       /\ r.done.buffer = InsertAt(buffer, index, <<>>)
       /\ r.done.cx = 0
       /\ r.done.vtop + r.done.cy = cursor_line
       /\ r.done.undo_actions =
              Append(undo_actions, [t |-> "DeleteLineAt", y |-> index])
       /\ r.undone.status = "ok"
       /\ r.undone.buffer = buffer

\* C28: InsertLineAtCursor inserts an empty line at index vtop + cy and
\* InsertLineBelowCursor at vtop + cy + 1 (moving the cursor onto it), both
\* set cx to 0 and record DeleteLineAt(index of the inserted line); for
\* every buffer, including the empty buffer, executing either and then Undo
\* restores the buffer's exact sequence of lines.
C28_Claim ==
    (AfterBounds /\ BoundsLine /\ BoundsRow) =>
        /\ InsertedLine(Act("InsertLineAtCursor"), vtop + cy, vtop + cy)
        /\ InsertedLine(Act("InsertLineBelowCursor"), vtop + cy + 1,
                        vtop + cy + 1)


\* NewLine executed from the state run() waits in
AfterNewLine == Execute(Self(NoFailure, FALSE), Act("NewLine"))

----------------------------------------------------------------------------
(* Undo of a mixed insert session, under SpecSession *)

\* the number of characters c in the lines
CountOf(lines, c) ==
    Cardinality({ij \in (1..Len(lines)) \X (1..SessionMaxLineLen) :
                    /\ ij[2] <= Len(lines[ij[1]])
                    /\ lines[ij[1]][ij[2]] = c})

\* run() executes Undo in Normal mode with a bundled insert session as the
\* most recent entry of the log, and every call of the environment succeeds
UndoOfSession ==
    /\ pc = "read" /\ status = "ok" /\ mode = "Normal"
    /\ undo_actions # <<>>
    /\ undo_actions[Len(undo_actions)].t = "UndoMultiple"
    /\ last'.executed = <<Act("Undo")>>
    /\ status' \in {"ok", "panic"}

C30_Step ==
    UndoOfSession =>
        /\ status' = "ok"
        /\ CountOf(buffer', "a") = CountOf(buffer, "a")

\* C30: a single Undo issued in Normal mode after an Insert-mode session
\* that mixes InsertCharAtCursorPos with DeletePreviousChar,
\* DeleteCharAtCursorPos or cursor movement removes only characters that
\* were inserted during that session: it never removes a character that
\* was in the buffer before the session began and never fails.
C30_Claim == [][C30_Step]_vars

----------------------------------------------------------------------------
(* C31: undoing everything restores the initial buffer *)

\* The log has been emptied by Undo, after edits only
Unwound == scn.kind = "undoing" /\ status = "ok" /\ undo_actions = <<>>

\* Whenever Undo has emptied the log, the buffer is the initial one
Restored == Unwound => buffer = scn.buffer0

\* C31: after undoable edits (insert sessions of InsertCharAtCursorPos,
\* InsertLineAtCursor, InsertLineBelowCursor, DeleteCurrentLine) and cursor
\* movement, executing Undo until the undo log is empty yields a buffer
\* whose lines are the lines the editor was constructed with: the editor
\* does not panic on the way, and the emptied log comes with the initial
\* buffer.
\*
\* Restored holds in every state of SpecLifo.  What fails is getting
\* there: after a scroll, the lines that Undo removes leave vtop at or
\* past the end of the buffer, and check_bounds (C1) or Buffer::viewport
\* (C11) panics before the log is empty.
C31_Claim == scn.kind = "undoing" => status # "panic" /\ Restored

----------------------------------------------------------------------------
(* C32: Undo consumes the log *)

\* run() executes Undo, and every call of the environment succeeds
UndoExecuted ==
    /\ pc = "read" /\ status = "ok"
    /\ last'.executed = <<Act("Undo")>>
    /\ status' \in {"ok", "panic"}

\* What an Undo does to the log and, when the log is empty, to the editor
UndoAccounts ==
    IF undo_actions = <<>>
    THEN UNCHANGED <<buffer, vtop, cx, cy, mode, waiting_key_action,
                     undo_actions, insert_undo_actions, vx, size>>
    ELSE /\ Len(undo_actions') = Len(undo_actions) - 1
         /\ undo_actions' = SubSeq(undo_actions, 1, Len(undo_actions) - 1)

\* Every Undo that returns keeps the account: the replay of an inverse
\* appends nothing to the log
UndoCompleted == [][Executed(Act("Undo")) => UndoAccounts]_vars

\* Repeated Undo ends: with the log empty, or with the editor
UndoEnds == (scn.kind = "undoing") ~> (undo_actions = <<>> \/ status # "ok")

C32_Step == UndoExecuted => status' = "ok" /\ UndoAccounts

\* Repeated Undo empties the log, unless a call of the environment fails
C32_EmptyLog ==
    (scn.kind = "undoing") ~>
        (undo_actions = <<>> \/ status \in {"error", "io_error"})

\* C32: replaying an inverse never records a new inverse: executing Undo
\* on a non-empty undo log reduces its length by exactly one, executing
\* Undo on an empty log changes no state, and repeated Undo always reaches
\* an empty log after finitely many steps.
\*
\* UndoCompleted and UndoEnds hold under SpecLifoFair.  An Undo that panics
\* (C31) keeps no account, and ends the editor with entries in the log.
C32_Claim == [][C32_Step]_vars /\ C32_EmptyLog

----------------------------------------------------------------------------
(* C33: the text start column and the gutter *)

\* the cells of the text rows from column vx on hold no gutter cell
GutterClear ==
    \A r \in ViewportRows : \A x \in vx..(size[1] - 1) :
        render_buffer.cells[(r * size[1]) + x + 1].style # "gutter"

\* C33: in every reachable state, after any sequence of line insertions
\* and removals that changes the number of decimal digits of the buffer
\* length, vx equals gutter_width() + 1 (the digit count of the length,
\* plus 2), so the cells written by draw_gutter never overlap the cells at
\* column >= vx where line text and the cursor are drawn.
C33_Claim ==
    status = "ok" =>
        /\ vx = gutter_width(Self(NoFailure, FALSE)) + 1
        /\ GutterClear

====
